---- MODULE Spec2Model ----
(***************************************************************************)
(* Stem-Visualizer: the separation result cache (app.py), the remix        *)
(* operation (separation.py) and the Streamlit script that drives them.    *)
(*                                                                         *)
(* The disk is a map from paths to files plus a set of directories.  A     *)
(* path is a sequence of components.  A file holds a blob: its byte size,  *)
(* the decoders that can read it and the waveform it decodes to.  A        *)
(* waveform is a sequence of samples num[i]/den (exact rationals), with a  *)
(* sample rate and a channel count.  A Python dict is a sequence of        *)
(* <<key, value>> pairs in insertion order.                                *)
(*                                                                         *)
(* Spec    : the functions called directly, with arguments from bounded    *)
(*           sets (the contracts of the cache and of the remix).           *)
(* AppSpec : the Streamlit script, one whole re-run per user interaction.  *)
(***************************************************************************)
EXTENDS Integers, Sequences, FiniteSets, TLC

VARIABLES
    disk,      \* [files: path -> [blob, mtime], dirs: set of paths]
    now,       \* time.time(), in seconds
    session,   \* st.session_state: [stem_paths, mix_file]
    memo,      \* the st.cache_data store of cached_separate_audio
    widgets,   \* the widget values of the page
    last,      \* the last call: its arguments and what it returned
    steps,     \* number of calls made so far
    stores     \* the save_to_cache calls in progress, one per thread

vars == <<disk, now, session, memo, widgets, last, steps, stores>>

----------------------------------------------------------------------------
(* Bounds of the exploration *)

MaxSteps == 5

\* interactions with the Streamlit page in one behaviour
MaxRuns == 6

\* the number of steps of a behaviour of CliSpec
MaxCalls == 3

\* the lookups made while two threads store
MaxLookups == 2

----------------------------------------------------------------------------
(* Program constants *)

STEM_NAMES == <<"vocals", "drums", "bass", "other">>

MODEL_NAMES == {"htdemucs", "htdemucs_ft", "mdx_extra", "mdx_extra_q"}

MAX_AGE_HOURS == 24

DEV_CACHE_DIR == <<"cache", "stems">>

TEMP_DIR == <<"temp">>

----------------------------------------------------------------------------
(* Python values *)

NoPath == <<>>

EmptyDict == <<>>

RetNone == [tag |-> "None", dict |-> EmptyDict, path |-> NoPath]

RetDict(d) == [tag |-> "dict", dict |-> d, path |-> NoPath]

RetPath(p) == [tag |-> "path", dict |-> EmptyDict, path |-> p]

RetRaise == [tag |-> "raise", dict |-> EmptyDict, path |-> NoPath]

Keys(d) == {d[i][1] : i \in DOMAIN d}

Get(d, k) == d[CHOOSE i \in DOMAIN d : d[i][1] = k][2]

\* d[k] = v : replaces the value in place, or appends a new key
Put(d, k, v) ==
    IF k \in Keys(d)
    THEN [i \in DOMAIN d |-> IF d[i][1] = k THEN <<k, v>> ELSE d[i]]
    ELSE Append(d, <<k, v>>)

\* the truth value of a dict or None
Truthy(r) == r.tag = "dict" /\ Len(r.dict) > 0

\* a list argument that may be None
NoneList == [none |-> TRUE, items |-> <<>>]

List(s) == [none |-> FALSE, items |-> s]

\* "not x" for a list or None
Falsy(l) == l.none \/ Len(l.items) = 0

----------------------------------------------------------------------------
(* os.path and the file system *)

Join(dir, name) == Append(dir, name)

Basename(p) == p[Len(p)]

Dirname(p) == SubSeq(p, 1, Len(p) - 1)

IsUnder(p, dir) == Len(p) > Len(dir) /\ SubSeq(p, 1, Len(dir)) = dir

IsFile(d, p) == p \in DOMAIN d.files

Exists(d, p) == p \in DOMAIN d.files \/ p \in d.dirs

GetSize(d, p) == d.files[p].blob.size

\* os.makedirs(p, exist_ok=True)
MakeDirs(d, p) ==
    [d EXCEPT !.dirs = @ \cup {SubSeq(p, 1, k) : k \in 1..Len(p)}]

\* open(p, "wb").write(blob), or any library call that writes a whole file
WriteBlob(d, p, blob, t) ==
    [d EXCEPT !.files =
        [q \in DOMAIN @ \cup {p} |-> IF q = p THEN [blob |-> blob, mtime |-> t] ELSE @[q]]]

\* os.remove(p)
Remove(d, p) ==
    [d EXCEPT !.files = [q \in DOMAIN @ \ {p} |-> @[q]]]

\* (faulty variant) a copy that keeps a destination that already exists
Copy2KeepExisting(d, src, dst) ==
    [d EXCEPT !.files =
        [q \in DOMAIN @ \cup {dst} |->
            IF q = dst /\ q \notin DOMAIN @ THEN @[src] ELSE @[q]]]

\* shutil.copy2 keeps the content and the modification time of the source
Copy2(d, src, dst) ==
    [d EXCEPT !.files =
        [q \in DOMAIN @ \cup {dst} |-> IF q = dst THEN @[src] ELSE @[q]]]

\* shutil.copy2 raises when the source is missing or is the destination itself
Copy2Raises(d, src, dst) == ~IsFile(d, src) \/ src = dst

----------------------------------------------------------------------------
(* The cache key *)

\* hashlib.md5(...).hexdigest(): an injective tag of the key string
\* (digest collisions are outside the model)
Md5Hex(s) == "md5:" \o s

\* (faulty variant) the three parts joined without a separator
LookupKeyNoSeparator(file_name, file_size, model_name) ==
    file_name \o ToString(file_size) \o model_name

\* the key string, as get_cached_stems builds it
LookupKey(file_name, file_size, model_name) ==
    file_name \o "_" \o ToString(file_size) \o "_" \o model_name

\* the key string, as save_to_cache builds it
StoreKey(file_name, file_size, model_name) ==
    file_name \o "_" \o ToString(file_size) \o "_" \o model_name

\* the directory get_cached_stems probes
LookupCacheDir(d, input_path, model_name) ==
    Join(DEV_CACHE_DIR,
         Md5Hex(LookupKey(Basename(input_path), GetSize(d, input_path), model_name)))

\* (faulty variant) the key built from the session directory and the file name
StoreCacheDirFullPath(d, input_path, model_name) ==
    Join(DEV_CACHE_DIR,
         Md5Hex(StoreKey(input_path[Len(input_path) - 1] \o "/" \o Basename(input_path),
                         GetSize(d, input_path), model_name)))

\* the directory save_to_cache writes to
StoreCacheDir(d, input_path, model_name) ==
    Join(DEV_CACHE_DIR,
         Md5Hex(StoreKey(Basename(input_path), GetSize(d, input_path), model_name)))

StemFile(stem_name) == stem_name \o ".wav"

----------------------------------------------------------------------------
(* get_cached_stems *)

RECURSIVE CollectStems(_, _, _)
CollectStems(d, cache_dir, i) ==
    IF i > Len(STEM_NAMES) THEN EmptyDict
    ELSE LET stem_path == Join(cache_dir, StemFile(STEM_NAMES[i]))
             rest == CollectStems(d, cache_dir, i + 1)
         IN  IF Exists(d, stem_path)
             THEN <<(<<STEM_NAMES[i], stem_path>>)>> \o rest
             ELSE rest

\* (faulty variant) a hit only when all four stems are present
GetCachedStemsAllOrNothing(d, input_path, model_name) ==
    IF ~IsFile(d, input_path)
    THEN [disk |-> d, ret |-> RetRaise, msgs |-> {}]
    ELSE LET cache_dir == LookupCacheDir(d, input_path, model_name)
             stem_paths == CollectStems(d, cache_dir, 1)
         IN  IF Exists(d, cache_dir)
             THEN [disk |-> d,
                   ret  |-> IF Len(stem_paths) = Len(STEM_NAMES)
                            THEN RetDict(stem_paths) ELSE RetNone,
                   msgs |-> {"info: using cached stems"}]
             ELSE [disk |-> d, ret |-> RetNone, msgs |-> {}]

\* (faulty variant) the dict is returned without the emptiness test
GetCachedStemsNoLenCheck(d, input_path, model_name) ==
    IF ~IsFile(d, input_path)
    THEN [disk |-> d, ret |-> RetRaise, msgs |-> {}]
    ELSE LET cache_dir == LookupCacheDir(d, input_path, model_name)
             stem_paths == CollectStems(d, cache_dir, 1)
         IN  IF Exists(d, cache_dir)
             THEN [disk |-> d, ret |-> RetDict(stem_paths),
                   msgs |-> {"info: using cached stems"}]
             ELSE [disk |-> d, ret |-> RetNone, msgs |-> {}]

\* (faulty variant) the probe creates the key's directory, as the store does
GetCachedStemsMkdir(d, input_path, model_name) ==
    IF ~IsFile(d, input_path)
    THEN [disk |-> d, ret |-> RetRaise, msgs |-> {}]
    ELSE LET cache_dir == LookupCacheDir(d, input_path, model_name)
             stem_paths == CollectStems(d, cache_dir, 1)
         IN  IF Exists(d, cache_dir)
             THEN [disk |-> d,
                   ret  |-> IF Len(stem_paths) > 0 THEN RetDict(stem_paths) ELSE RetNone,
                   msgs |-> {"info: using cached stems"}]
             ELSE [disk |-> MakeDirs(d, cache_dir), ret |-> RetNone, msgs |-> {}]

GetCachedStems(d, input_path, model_name) ==
    IF ~IsFile(d, input_path)
    THEN [disk |-> d, ret |-> RetRaise, msgs |-> {}]
    ELSE LET cache_dir == LookupCacheDir(d, input_path, model_name)
             stem_paths == CollectStems(d, cache_dir, 1)
         IN  IF Exists(d, cache_dir)
             THEN [disk |-> d,
                   ret  |-> IF Len(stem_paths) > 0 THEN RetDict(stem_paths) ELSE RetNone,
                   msgs |-> {"info: using cached stems"}]
             ELSE [disk |-> d, ret |-> RetNone, msgs |-> {}]

----------------------------------------------------------------------------
(* save_to_cache *)

\* (faulty variant) the loop ends after its first copy
CopyStemsFirstOnly(d, cache_dir, stem_paths, i, failAt) ==
    IF i > Len(stem_paths) THEN [disk |-> d, raised |-> FALSE]
    ELSE LET cache_path == Join(cache_dir, StemFile(stem_paths[i][1]))
             stem_path == stem_paths[i][2]
         IN  IF i = failAt \/ Copy2Raises(d, stem_path, cache_path)
             THEN [disk |-> d, raised |-> TRUE]
             ELSE [disk |-> Copy2(d, stem_path, cache_path), raised |-> FALSE]

\* The copy loop from item i on; copy number failAt fails in the file system
\* (disk full, permissions), failAt = 0 is a run without such a failure,
\* failAt = -2 is os.path.getsize raising and failAt = -1 os.makedirs raising.
RECURSIVE CopyStems(_, _, _, _, _)
CopyStems(d, cache_dir, stem_paths, i, failAt) ==
    IF i > Len(stem_paths) THEN [disk |-> d, raised |-> FALSE]
    ELSE LET cache_path == Join(cache_dir, StemFile(stem_paths[i][1]))
             stem_path == stem_paths[i][2]
         IN  IF i = failAt \/ Copy2Raises(d, stem_path, cache_path)
             THEN [disk |-> d, raised |-> TRUE]
             ELSE CopyStems(Copy2(d, stem_path, cache_path), cache_dir,
                            stem_paths, i + 1, failAt)

\* (faulty variant) a failed store removes what it had copied
SaveToCacheRollingBack(d, input_path, model_name, stem_paths, failAt) ==
    IF ~IsFile(d, input_path) \/ failAt < 0
    THEN [disk |-> d, raised |-> TRUE, msgs |-> {}]
    ELSE LET cache_dir == StoreCacheDir(d, input_path, model_name)
             r == CopyStems(MakeDirs(d, cache_dir), cache_dir, stem_paths, 1, failAt)
         IN  [disk   |-> IF r.raised THEN MakeDirs(d, cache_dir) ELSE r.disk,
              raised |-> r.raised,
              msgs   |-> IF r.raised THEN {} ELSE {"success: stems cached"}]

SaveToCache(d, input_path, model_name, stem_paths, failAt) ==
    IF ~IsFile(d, input_path) \/ failAt < 0
    THEN [disk |-> d, raised |-> TRUE, msgs |-> {}]
    ELSE LET cache_dir == StoreCacheDir(d, input_path, model_name)
             r == CopyStems(MakeDirs(d, cache_dir), cache_dir, stem_paths, 1, failAt)
         IN  [disk   |-> r.disk,
              raised |-> r.raised,
              msgs   |-> IF r.raised THEN {} ELSE {"success: stems cached"}]

----------------------------------------------------------------------------
(* Waveforms: samples num[i]/den, a sample rate and a channel count *)

NoWave == [sr |-> 0, ch |-> 0, num |-> <<>>, den |-> 1]

Abs(x) == IF x < 0 THEN -x ELSE x

Max2(a, b) == IF a >= b THEN a ELSE b

\* mixed.abs().max(), as a numerator over w.den
PeakNum(w) ==
    IF Len(w.num) = 0 THEN 0
    ELSE CHOOSE m \in {Abs(w.num[i]) : i \in DOMAIN w.num} :
            \A i \in DOMAIN w.num : Abs(w.num[i]) <= m

\* x / x.abs().max() * 0.9
ScaleToPeak(w) ==
    [w EXCEPT !.num = [i \in DOMAIN @ |-> 9 * @[i]], !.den = 10 * PeakNum(w)]

\* mixed + waveform raises unless, in length and in channel count alike,
\* the two agree or one of them is 1 (a tensor broadcasts from size 1)
CanAdd(a, b) ==
    /\ (Len(a.num) = Len(b.num) \/ Len(a.num) = 1 \/ Len(b.num) = 1)
    /\ (a.ch = b.ch \/ a.ch = 1 \/ b.ch = 1)

\* sample i of w once broadcast to the length of the sum
SampleAt(w, i) == IF Len(w.num) = 1 THEN w.num[1] ELSE w.num[i]

AddWave(a, b) ==
    [sr  |-> a.sr,
     ch  |-> Max2(a.ch, b.ch),
     num |-> IF a.den = b.den
             THEN [i \in 1..Max2(Len(a.num), Len(b.num)) |-> SampleAt(a, i) + SampleAt(b, i)]
             ELSE [i \in 1..Max2(Len(a.num), Len(b.num)) |->
                      SampleAt(a, i) * b.den + SampleAt(b, i) * a.den],
     den |-> IF a.den = b.den THEN a.den ELSE a.den * b.den]

\* numpy astype(int16) of x * 32767 rounds toward zero; torchaudio reads an
\* int16 sample back as value / 32768
TruncDiv(a, b) == IF a >= 0 THEN a \div b ELSE -((-a) \div b)

ToInt16(w) ==
    [w EXCEPT !.num = [i \in DOMAIN @ |-> TruncDiv(@[i] * 32767, w.den)],
              !.den = 32768]

----------------------------------------------------------------------------
(* Blobs: what a file holds *)

DECODERS == {"torchaudio", "librosa", "ffmpeg"}

\* a WAV file written by torchaudio or scipy
WavBlob(w) == [size |-> Len(w.num) * w.ch, dec |-> DECODERS, wave |-> w]

\* torchaudio.load(path): raises on a missing file or one it cannot decode
CanLoad(d, p) == IsFile(d, p) /\ "torchaudio" \in d.files[p].blob.dec

Load(d, p) == d.files[p].blob.wave

----------------------------------------------------------------------------
(* File names *)

NAME_PARTS ==
    { [base |-> "a", ext |-> ".wav"],
      [base |-> "b", ext |-> ".m4a"],
      [base |-> "c", ext |-> ".mp3"],
      [base |-> "d", ext |-> ".M4A"] }

FileName(r) == r.base \o r.ext

\* os.path.splitext
SplitExt(name) == CHOOSE r \in NAME_PARTS : FileName(r) = name

----------------------------------------------------------------------------
(* load_audio *)

CONVERTED_EXTS == {".m4a", ".aac", ".mp4"}

\* str.lower on the extensions in use
Lower(ext) == IF ext = ".M4A" THEN ".m4a" ELSE ext

\* a file that no strategy reads, as a missing file is
Unreadable == [size |-> 0, dec |-> {}, wave |-> NoWave]

\* The channels of a decoded waveform, each as the set of the file's
\* channels it is made of
Channels(n) == [i \in 1..n |-> {i}]

\* np.vstack([y, y]) and torch.cat([waveform, waveform]): one channel, twice
Stereo(chans) == IF Len(chans) = 1 THEN <<chans[1], chans[1]>> ELSE chans

\* ffmpeg -ac 2: one channel goes to both sides, two stay, and the channels
\* beyond the second are mixed into both sides
Downmix(n) ==
    IF n = 1 THEN <<{1}, {1}>>
    ELSE <<{1} \cup 3..n, {2} \cup 3..n>>

CeilDiv(a, b) == (a + b - 1) \div b

\* torchaudio.transforms.Resample, ffmpeg -ar: the samples at another rate,
\* ceil(n * target / rate) of them; each is taken here from the nearest
\* earlier sample of the input
Resample(w, target_sr) ==
    IF w.sr = target_sr \/ w.sr = 0 THEN w
    ELSE [w EXCEPT !.sr = target_sr,
                   !.num = [i \in 1..CeilDiv(Len(w.num) * target_sr, w.sr) |->
                               w.num[((i - 1) * w.sr) \div target_sr + 1]]]

\* (faulty variant) the converter is tried whatever the extension
DecodeConvertingAll(name, blob, target_sr) ==
    IF "torchaudio" \in blob.dec
    THEN [ok |-> TRUE, tried |-> <<"torchaudio">>, wave |-> blob.wave,
          chans |-> Channels(blob.wave.ch)]
    ELSE IF "librosa" \in blob.dec
    THEN [ok |-> TRUE, tried |-> <<"torchaudio", "librosa">>,
          wave |-> [blob.wave EXCEPT !.ch = IF @ = 1 THEN 2 ELSE @],
          chans |-> Stereo(Channels(blob.wave.ch))]
    ELSE IF "ffmpeg" \in blob.dec
    THEN [ok |-> TRUE, tried |-> <<"torchaudio", "librosa", "ffmpeg">>,
          wave |-> [Resample(blob.wave, target_sr) EXCEPT !.ch = 2],
          chans |-> Downmix(blob.wave.ch)]
    ELSE [ok |-> FALSE,
          tried |-> <<"torchaudio", "librosa", "ffmpeg", "librosa">>,
          wave |-> NoWave, chans |-> <<>>]

\* The decode chain: the strategies tried, in order, and the decoded waveform
Decode(name, blob, target_sr) ==
    IF "torchaudio" \in blob.dec
    THEN [ok |-> TRUE, tried |-> <<"torchaudio">>, wave |-> blob.wave,
          chans |-> Channels(blob.wave.ch)]
    ELSE IF "librosa" \in blob.dec
    THEN [ok |-> TRUE, tried |-> <<"torchaudio", "librosa">>,
          wave |-> [blob.wave EXCEPT !.ch = IF @ = 1 THEN 2 ELSE @],
          chans |-> Stereo(Channels(blob.wave.ch))]
    ELSE IF Lower(SplitExt(name).ext) \in CONVERTED_EXTS
    THEN IF "ffmpeg" \in blob.dec
         THEN [ok |-> TRUE, tried |-> <<"torchaudio", "librosa", "ffmpeg">>,
               wave |-> [Resample(blob.wave, target_sr) EXCEPT !.ch = 2],
               chans |-> Downmix(blob.wave.ch)]
         ELSE [ok |-> FALSE,
               tried |-> <<"torchaudio", "librosa", "ffmpeg", "librosa">>,
               wave |-> NoWave, chans |-> <<>>]
    ELSE [ok |-> FALSE, tried |-> <<"torchaudio", "librosa">>, wave |-> NoWave,
          chans |-> <<>>]

\* (faulty variant) a single channel is returned as it is
LoadAudioKeepingMono(d, input_file, target_sr) ==
    IF ~IsFile(d, input_file)
    THEN Decode(Basename(input_file), Unreadable, target_sr)
    ELSE LET r == Decode(Basename(input_file), d.files[input_file].blob, target_sr)
             w == Resample(r.wave, target_sr)
         IN  IF ~r.ok THEN r
             ELSE [r EXCEPT !.wave = [w EXCEPT !.ch = IF w.ch > 2 THEN 2 ELSE w.ch],
                            !.chans = IF Len(@) > 2 THEN SubSeq(@, 1, 2) ELSE @]

LoadAudio(d, input_file, target_sr) ==
    IF ~IsFile(d, input_file)
    THEN Decode(Basename(input_file), Unreadable, target_sr)
    ELSE LET r == Decode(Basename(input_file), d.files[input_file].blob, target_sr)
             w == Resample(r.wave, target_sr)
         IN  IF ~r.ok THEN r
             ELSE [r EXCEPT !.wave = [w EXCEPT !.ch = IF w.ch > 2 \/ w.ch = 1 THEN 2 ELSE w.ch],
                            !.chans = Stereo(IF Len(@) > 2 THEN SubSeq(@, 1, 2) ELSE @)]

----------------------------------------------------------------------------
(* save_audio *)

\* (faulty variant) no scipy attempt after the two torchaudio backends
SaveAudioNoScipy(d, audio, path, saveFault, t) ==
    LET a == IF PeakNum(audio) > audio.den THEN ScaleToPeak(audio) ELSE audio
        d1 == MakeDirs(d, Dirname(path))
    IN  IF saveFault <= 1 THEN [disk |-> WriteBlob(d1, path, WavBlob(a), t), raised |-> FALSE]
        ELSE [disk |-> d1, raised |-> TRUE]

\* saveFault is the number of output backends that fail, in the order they
\* are tried: soundfile, the default backend, scipy
SaveAudio(d, audio, path, saveFault, t) ==
    LET a == IF PeakNum(audio) > audio.den THEN ScaleToPeak(audio) ELSE audio
        d1 == MakeDirs(d, Dirname(path))
    IN  IF saveFault <= 1 THEN [disk |-> WriteBlob(d1, path, WavBlob(a), t), raised |-> FALSE]
        ELSE IF saveFault = 2
        THEN [disk |-> WriteBlob(d1, path, WavBlob(ToInt16(a)), t), raised |-> FALSE]
        ELSE [disk |-> d1, raised |-> TRUE]

----------------------------------------------------------------------------
(* separate_audio *)

\* model.samplerate and model.sources of the four pretrained models
MODEL_SAMPLERATE == 44100

MODEL_SOURCES == <<"drums", "bass", "other", "vocals">>

\* apply_model: the separation engine, a pure function of the decoded input
\* and the model
ApplyModel(w, model_name, stem_name) ==
    LET k == IF model_name \in {"htdemucs", "htdemucs_ft"} THEN 1 ELSE 2
    IN  CASE stem_name = "vocals" -> [w EXCEPT !.num = [i \in DOMAIN @ |-> k * @[i]]]
          [] stem_name = "drums"  -> [w EXCEPT !.num = [i \in DOMAIN @ |-> -@[i]]]
          [] stem_name = "bass"   -> [w EXCEPT !.num = [i \in DOMAIN @ |-> 2 * @[i]]]
          [] OTHER                -> [w EXCEPT !.num = [i \in DOMAIN @ |-> 0]]

RECURSIVE SaveStems(_, _, _, _, _, _, _, _)
SaveStems(d, w, model_name, output_folder, i, stem_paths, saveFault, t) ==
    IF i > Len(MODEL_SOURCES)
    THEN [disk |-> d, ret |-> RetDict(stem_paths)]
    ELSE LET stem_name == MODEL_SOURCES[i]
             stem_path == Join(output_folder, StemFile(stem_name))
             s == SaveAudio(d, ApplyModel(w, model_name, stem_name), stem_path, saveFault, t)
         IN  IF s.raised THEN [disk |-> s.disk, ret |-> RetRaise]
             ELSE SaveStems(s.disk, w, model_name, output_folder, i + 1,
                            Put(stem_paths, stem_name, stem_path), saveFault, t)

\* (faulty variant) an input that does not load makes the call raise
SeparateAudioRaisingOnLoad(d, input_file, output_dir, model_name, engineFails, saveFault, t) ==
    LET d1 == MakeDirs(d, output_dir)
        a == LoadAudio(d1, input_file, MODEL_SAMPLERATE)
        output_folder == Join(output_dir, SplitExt(Basename(input_file)).base)
        s == SaveStems(MakeDirs(d1, output_folder), a.wave, model_name,
                       output_folder, 1, EmptyDict, saveFault, t)
    IN  IF ~a.ok THEN [disk |-> d1, ret |-> RetRaise, engine |-> FALSE]
        ELSE IF engineFails THEN [disk |-> d1, ret |-> RetRaise, engine |-> TRUE]
        ELSE [disk |-> s.disk, ret |-> s.ret, engine |-> TRUE]

\* engineFails: apply_model raises (out of memory, a model that fails to load).
\* engine: whether apply_model was called.
SeparateAudio(d, input_file, output_dir, model_name, engineFails, saveFault, t) ==
    LET d1 == MakeDirs(d, output_dir)
        a == LoadAudio(d1, input_file, MODEL_SAMPLERATE)
        output_folder == Join(output_dir, SplitExt(Basename(input_file)).base)
        s == SaveStems(MakeDirs(d1, output_folder), a.wave, model_name,
                       output_folder, 1, EmptyDict, saveFault, t)
    IN  IF ~a.ok THEN [disk |-> d1, ret |-> RetDict(EmptyDict), engine |-> FALSE]
        ELSE IF engineFails THEN [disk |-> d1, ret |-> RetRaise, engine |-> TRUE]
        ELSE [disk |-> s.disk, ret |-> s.ret, engine |-> TRUE]

----------------------------------------------------------------------------
(* mix_stems *)

\* (faulty variant) the loop ends at the first selected stem that fails
RECURSIVE MixLoopStopAtFailure(_, _, _, _, _)
MixLoopStopAtFailure(d, stem_paths, include_list, i, acc) ==
    IF i > Len(include_list) THEN acc
    ELSE LET stem_name == include_list[i]
             p == Get(stem_paths, stem_name)
             w == Load(d, p)
         IN  IF stem_name \notin Keys(stem_paths) \/ ~CanLoad(d, p) THEN acc
             ELSE IF ~acc.has
             THEN MixLoopStopAtFailure(d, stem_paths, include_list, i + 1,
                      [has |-> TRUE, mixed |-> w, sr |-> w.sr,
                       used |-> Append(acc.used, stem_name)])
             ELSE IF CanAdd(acc.mixed, w)
             THEN MixLoopStopAtFailure(d, stem_paths, include_list, i + 1,
                      [has |-> TRUE, mixed |-> AddWave(acc.mixed, w), sr |-> w.sr,
                       used |-> Append(acc.used, stem_name)])
             ELSE [acc EXCEPT !.sr = w.sr]

\* The loading loop from item i on: mixed is the running sum (has = FALSE
\* while it is None), sr the rate of the last stem that loaded
RECURSIVE MixLoop(_, _, _, _, _)
MixLoop(d, stem_paths, include_list, i, acc) ==
    IF i > Len(include_list) THEN acc
    ELSE LET stem_name == include_list[i]
             p == Get(stem_paths, stem_name)
             w == Load(d, p)
             next ==
                IF stem_name \notin Keys(stem_paths) \/ ~CanLoad(d, p) THEN acc
                ELSE IF ~acc.has
                THEN [has |-> TRUE, mixed |-> w, sr |-> w.sr,
                      used |-> Append(acc.used, stem_name)]
                ELSE IF CanAdd(acc.mixed, w)
                THEN [has |-> TRUE, mixed |-> AddWave(acc.mixed, w), sr |-> w.sr,
                      used |-> Append(acc.used, stem_name)]
                ELSE [acc EXCEPT !.sr = w.sr]
         IN  MixLoop(d, stem_paths, include_list, i + 1, next)

MixSum(d, stem_paths, include_list) ==
    MixLoop(d, stem_paths, include_list, 1,
            [has |-> FALSE, mixed |-> NoWave, sr |-> 0, used |-> <<>>])

\* (faulty variant) the sum is scaled only when it would clip, as save_audio does
NormalizeIfClipping(mixed) ==
    IF PeakNum(mixed) > mixed.den THEN ScaleToPeak(mixed) ELSE mixed

Normalize(mixed) == IF PeakNum(mixed) > 0 THEN ScaleToPeak(mixed) ELSE mixed

\* the written mix: the normalized sum at the rate of the last stem loaded
MixOutput(m) == [Normalize(m.mixed) EXCEPT !.sr = m.sr]

\* (faulty variant) an empty or missing selection mixes every stem of the set
MixStemsDefaultAll(d, stem_paths, output_path, include_list, saveFault, t) ==
    LET names == IF Falsy(include_list)
                 THEN [i \in DOMAIN stem_paths |-> stem_paths[i][1]]
                 ELSE include_list.items
        m == MixSum(d, stem_paths, names)
        d1 == MakeDirs(d, Dirname(output_path))
    IN  IF ~m.has THEN [disk |-> d, ret |-> RetNone]
        ELSE IF saveFault >= 2 THEN [disk |-> d1, ret |-> RetNone]
        ELSE [disk |-> WriteBlob(d1, output_path, WavBlob(MixOutput(m)), t),
              ret  |-> RetPath(output_path)]

\* (faulty variant) the output directory is made before the stems are loaded
MixStemsMakingDir(d, stem_paths, output_path, include_list, saveFault, t) ==
    IF Falsy(include_list) THEN [disk |-> d, ret |-> RetNone]
    ELSE LET m == MixSum(d, stem_paths, include_list.items)
             d1 == MakeDirs(d, Dirname(output_path))
         IN  IF ~m.has THEN [disk |-> d1, ret |-> RetNone]
             ELSE IF saveFault >= 2 THEN [disk |-> d1, ret |-> RetNone]
             ELSE [disk |-> WriteBlob(d1, output_path, WavBlob(MixOutput(m)), t),
                   ret  |-> RetPath(output_path)]

\* saveFault: the number of backends that fail, soundfile then the default
MixStems(d, stem_paths, output_path, include_list, saveFault, t) ==
    IF Falsy(include_list) THEN [disk |-> d, ret |-> RetNone]
    ELSE LET m == MixSum(d, stem_paths, include_list.items)
             d1 == MakeDirs(d, Dirname(output_path))
         IN  IF ~m.has THEN [disk |-> d, ret |-> RetNone]
             ELSE IF saveFault >= 2 THEN [disk |-> d1, ret |-> RetNone]
             ELSE [disk |-> WriteBlob(d1, output_path, WavBlob(MixOutput(m)), t),
                   ret  |-> RetPath(output_path)]

----------------------------------------------------------------------------
(* create_custom_mix *)

MixFileName(t) == "custom_mix_" \o ToString(t) \o ".wav"

CreateCustomMix(d, stem_paths, selected_stems, saveFault, t) ==
    IF Falsy(selected_stems) THEN [disk |-> d, ret |-> RetNone]
    ELSE MixStems(d, stem_paths, Join(TEMP_DIR, MixFileName(t)), selected_stems,
                  saveFault, t)

----------------------------------------------------------------------------
(* cleanup_temp_files *)

\* (faulty variant) the walk starts at the project directory, above temp and cache
CleanupAllOldFiles(d, max_age_hours, stuck, t) ==
    LET max_age_seconds == max_age_hours * 60 * 60
        old == {p \in DOMAIN d.files : t - d.files[p].mtime > max_age_seconds}
    IN  [d EXCEPT !.files = [q \in DOMAIN @ \ (old \ stuck) |-> @[q]]]

\* os.walk visits the files of a directory before those of its subdirectories
WalkedBefore(p, q) == Len(p) < Len(q) /\ IsUnder(q, Dirname(p))

\* (faulty variant) the first os.remove that fails ends the walk
CleanupStoppingAtFailure(d, max_age_hours, stuck, t) ==
    LET max_age_seconds == max_age_hours * 60 * 60
        old == {p \in DOMAIN d.files :
                   IsUnder(p, TEMP_DIR) /\ t - d.files[p].mtime > max_age_seconds}
        reached == {q \in old : \A p \in old \cap stuck : ~WalkedBefore(p, q)}
    IN  [d EXCEPT !.files = [q \in DOMAIN @ \ (reached \ stuck) |-> @[q]]]

\* stuck: the files whose os.remove fails; the failure is printed and the
\* walk goes on
CleanupTempFiles(d, max_age_hours, stuck, t) ==
    LET max_age_seconds == max_age_hours * 60 * 60
        old == {p \in DOMAIN d.files :
                   IsUnder(p, TEMP_DIR) /\ t - d.files[p].mtime > max_age_seconds}
    IN  [d EXCEPT !.files = [q \in DOMAIN @ \ (old \ stuck) |-> @[q]]]

----------------------------------------------------------------------------
(* Inputs of the exploration *)

T0 == 1000

WaveA == [sr |-> 44100, ch |-> 2, num |-> <<1, -2>>, den |-> 2]

WaveB == [sr |-> 44100, ch |-> 2, num |-> <<2, 1>>, den |-> 2]

\* two decodable uploads of the same size and different content, a larger
\* one, and a file no decoder reads
BlobA == [size |-> 1, dec |-> DECODERS, wave |-> WaveA]

BlobA2 == [size |-> 1, dec |-> DECODERS, wave |-> WaveB]

BlobB == [size |-> 2, dec |-> DECODERS, wave |-> WaveB]

BlobBad == [size |-> 1, dec |-> {}, wave |-> NoWave]

\* the same file name under two session directories
INPUT_PATHS == { <<"temp", "s1", "a.wav">>, <<"temp", "s2", "a.wav">> }

TRIED_MODELS == {"htdemucs", "mdx_extra"}

StemFileNames == {StemFile(STEM_NAMES[i]) : i \in DOMAIN STEM_NAMES}

\* the members of `names`, in the order of `order`
InOrder(order, names) ==
    LET Test(x) == x \in names IN SelectSeq(order, Test)

\* the dict {name: folder/name.wav} over `names`, inserted in the order of `order`
DictOver(order, names, folder) ==
    LET ks == InOrder(order, names)
    IN  [i \in DOMAIN ks |-> <<ks[i], Join(folder, StemFile(ks[i]))>>]

Inputs(d) == {p \in INPUT_PATHS : IsFile(d, p)}

\* the folder separate_audio writes the stems of input p to
StemFolder(p) == Join(Join(Dirname(p), "stems"), SplitExt(Basename(p)).base)

NamesIn(d, folder) ==
    {STEM_NAMES[i] : i \in {j \in DOMAIN STEM_NAMES : IsFile(d, Join(folder, StemFile(STEM_NAMES[j])))}}

PARTS == { {"vocals", "drums", "bass", "other"}, {"vocals"}, {"drums", "bass"} }

\* the stem sets a caller can hold: the stems separated from one input, or
\* some of them
StemSets(d) ==
    {EmptyDict} \cup
    { DictOver(MODEL_SOURCES, N \cap NamesIn(d, StemFolder(p)), StemFolder(p)) :
        N \in PARTS, p \in Inputs(d) }

\* the recognized stem names that exist in a directory
Present(d, dir) ==
    {STEM_NAMES[i] : i \in {j \in DOMAIN STEM_NAMES : Exists(d, Join(dir, StemFile(STEM_NAMES[j])))}}

\* the stem names whose file in a directory differs between two disks
Replaced(d, e, dir) ==
    {k \in Present(d, dir) :
        LET q == Join(dir, StemFile(k))
        IN  IsFile(d, q) /\ IsFile(e, q) /\ d.files[q].blob # e.files[q].blob}

\* `last` when no call was made: the fields a call does not use keep these
\* values.  History kept for the claims: had, the stem names the key's
\* directory held before a store; replaced, the names whose file the store
\* overwrote with other content; after_store, set on a lookup that directly
\* follows a completed store with the same arguments (the lookup then keeps
\* the store's stem_paths and had).  A run of the Streamlit script records
\* the button pressed, the use-cached option, whether the cache was looked
\* up and hit, whether the engine ran, how the store ended ("none", "ok",
\* "raised"), the files cleanup_temp_files removed and whether an exception
\* escaped main(), and whether the engine was set to fail in it.  A mix call records the number of failing backends in
\* fault.
\* the command line without options
NoArgs == [mix |-> FALSE, cpu |-> FALSE, no |-> {}]

NoCall ==
    [op |-> "none", input_path |-> NoPath, model |-> "", stem_paths |-> EmptyDict,
     include |-> NoneList, ret |-> RetNone, msgs |-> {}, had |-> {},
     replaced |-> {}, after_store |-> FALSE,
     pressed |-> "none", use_cached |-> TRUE, looked |-> FALSE, hit |-> FALSE,
     engine |-> FALSE, store |-> "none", cleaned |-> {}, fault |-> 0,
     escaped |-> FALSE, engine_fault |-> FALSE, args |-> NoArgs, device |-> "",
     tried |-> <<>>, wave |-> NoWave, chans |-> <<>>,
     stuck |-> {}, max_age_hours |-> 0]

\* the page before any file is uploaded; the selectbox starts at its first
\* option, the use-cached checkbox and the stem checkboxes start checked
NoWidgets ==
    [has |-> FALSE, name |-> "", blob |-> [size |-> 0, dec |-> {}, wave |-> NoWave],
     model |-> "htdemucs", use_cached |-> TRUE, unchecked |-> {}]

\* the threads that run a script each, one per browser session
THREADS == {1, 2}

\* a thread that is not in save_to_cache
Idle == [pc |-> "idle", input_path |-> NoPath, model |-> "", stem_paths |-> EmptyDict, i |-> 0]

NoStores == [w \in THREADS |-> Idle]

----------------------------------------------------------------------------
(* State after the module is imported: both directories exist and are empty *)

Init ==
    /\ disk = MakeDirs(MakeDirs([files |-> <<>>, dirs |-> {}], DEV_CACHE_DIR), TEMP_DIR)
    /\ now = T0
    /\ session = [stem_paths |-> RetNone, mix_file |-> RetNone]
    /\ memo = <<>>
    /\ widgets = NoWidgets
    /\ last = NoCall
    /\ steps = 0
    /\ stores = NoStores

----------------------------------------------------------------------------
(* The functions called directly.  A call's result is bound once, as the
   element of a singleton, and the new state is read off it. *)

\* an uploaded file is saved under a session directory
WriteUpload(p, b) ==
    /\ steps < MaxSteps
    /\ ~IsFile(disk, p)
    /\ disk' = WriteBlob(MakeDirs(disk, Dirname(p)), p, b, now)
    /\ last' = [NoCall EXCEPT !.op = "write", !.input_path = p]
    /\ steps' = steps + 1
    /\ UNCHANGED <<now, session, memo, widgets, stores>>

CallGetCachedStems(p, m) ==
    /\ steps < MaxSteps
    /\ \E r \in {GetCachedStems(disk, p, m)},
          follows \in {/\ last.op = "save_to_cache" /\ last.ret.tag # "raise"
                       /\ last.input_path = p /\ last.model = m} :
           /\ disk' = r.disk
           /\ last' = [NoCall EXCEPT !.op = "get_cached_stems", !.input_path = p,
                                     !.model = m, !.ret = r.ret, !.msgs = r.msgs,
                                     !.after_store = follows,
                                     !.stem_paths = IF follows THEN last.stem_paths ELSE EmptyDict,
                                     !.had = IF follows THEN last.had ELSE {}]
    /\ steps' = steps + 1
    /\ UNCHANGED <<now, session, memo, widgets, stores>>

CallSaveToCache(p, m, S, failAt) ==
    /\ steps < MaxSteps
    /\ failAt <= Len(S)
    /\ \E r \in {SaveToCache(disk, p, m, S, failAt)} :
           /\ disk' = r.disk
           /\ last' = [NoCall EXCEPT !.op = "save_to_cache", !.input_path = p,
                                     !.model = m, !.stem_paths = S,
                                     !.ret = IF r.raised THEN RetRaise ELSE RetNone,
                                     !.msgs = r.msgs, !.fault = failAt,
                                     !.had = Present(disk, StoreCacheDir(disk, p, m)),
                                     !.replaced = Replaced(disk, r.disk, StoreCacheDir(disk, p, m))]
    /\ steps' = steps + 1
    /\ UNCHANGED <<now, session, memo, widgets, stores>>

CallSeparateAudio(p, m, engineFails, saveFault) ==
    /\ steps < MaxSteps
    /\ \E r \in {SeparateAudio(disk, p, Join(Dirname(p), "stems"), m,
                               engineFails, saveFault, now)} :
           /\ disk' = r.disk
           /\ last' = [NoCall EXCEPT !.op = "separate_audio", !.input_path = p,
                                     !.model = m, !.ret = r.ret, !.engine = r.engine,
                                     !.engine_fault = engineFails, !.fault = saveFault]
    /\ steps' = steps + 1
    /\ UNCHANGED <<now, session, memo, widgets, stores>>

Next ==
    \/ \E p \in INPUT_PATHS, b \in {BlobA, BlobA2, BlobB} : WriteUpload(p, b)
    \/ \E p \in Inputs(disk), m \in TRIED_MODELS : CallSeparateAudio(p, m, FALSE, 0)
    \/ \E p \in Inputs(disk), m \in TRIED_MODELS : CallGetCachedStems(p, m)
    \/ \E p \in Inputs(disk), m \in TRIED_MODELS, S \in StemSets(disk), failAt \in {0, 2} :
          CallSaveToCache(p, m, S, failAt)

Spec == Init /\ [][Next]_vars

----------------------------------------------------------------------------
(* Claims about the cache, checked under Spec *)

P1 == <<"temp", "s1", "a.wav">>

P2 == <<"temp", "s2", "a.wav">>

IsLookup(c) == c.op = "get_cached_stems" /\ c.ret.tag # "raise"

IsStore(c) == c.op = "save_to_cache" /\ c.ret.tag # "raise"

\* every name of the stored set comes back, mapped to the stored content
StoredContentComesBack ==
    \A k \in Keys(last.stem_paths) :
        /\ k \in Keys(last.ret.dict)
        /\ disk.files[Get(last.ret.dict, k)].blob
              = disk.files[Get(last.stem_paths, k)].blob

\* C1 as stated: a store directly followed by a lookup with the same
\* arguments returns exactly the names of the stored set (None counting as
\* the empty mapping), each with the stored content.
C1_RoundTripExact ==
    (IsLookup(last) /\ last.after_store) =>
        /\ Keys(last.ret.dict) = Keys(last.stem_paths)
        /\ StoredContentComesBack

\* C1 amended: the lookup returns the names of the stored set together with
\* the stem names the key's directory already held before the store, and
\* None when both are empty; each name of the stored set maps to the stored
\* content.
C1_RoundTrip ==
    (IsLookup(last) /\ last.after_store) =>
        /\ Keys(last.ret.dict) = Keys(last.stem_paths) \cup last.had
        /\ last.ret.tag = (IF Keys(last.stem_paths) \cup last.had = {}
                           THEN "None" ELSE "dict")
        /\ StoredContentComesBack

\* a lookup directly after a store of vocals alone over an entry that held
\* all four stems
C1_Witness ==
    /\ IsLookup(last) /\ last.after_store
    /\ Keys(last.stem_paths) = {"vocals"}
    /\ last.had = {"vocals", "drums", "bass", "other"}
    /\ Len(last.ret.dict) = 4

\* C2: two inputs with the same basename, byte size and model address the
\* same cache directory, in lookup and in store alike, whatever their
\* content and directory.
C2_KeyDeterminism ==
    \A p \in Inputs(disk), q \in Inputs(disk), m \in MODEL_NAMES :
        (Basename(p) = Basename(q) /\ GetSize(disk, p) = GetSize(disk, q))
            => /\ LookupCacheDir(disk, p, m) = StoreCacheDir(disk, q, m)
               /\ GetCachedStems(disk, p, m).ret = GetCachedStems(disk, q, m).ret

\* a lookup through one path hits what was stored through another path
\* that holds different content of the same size
C2_Witness ==
    /\ IsLookup(last) /\ last.ret.tag = "dict" /\ last.input_path = P2
    /\ IsFile(disk, P1)
    /\ GetSize(disk, P1) = GetSize(disk, P2)
    /\ disk.files[P1].blob # disk.files[P2].blob
    /\ ~Exists(disk, StemFolder(P2))

\* C3: when the key's directory holds a non-empty subset of the four stem
\* files, the lookup returns exactly that subset, each name mapped to the
\* file in that directory.
C3_PartialHit ==
    IsLookup(last) =>
        LET dir == LookupCacheDir(disk, last.input_path, last.model)
        IN  (Exists(disk, dir) /\ Present(disk, dir) # {}) =>
               /\ last.ret.tag = "dict"
               /\ Keys(last.ret.dict) = Present(disk, dir)
               /\ \A k \in Present(disk, dir) :
                     Get(last.ret.dict, k) = Join(dir, StemFile(k))

\* a hit on a directory that holds vocals.wav alone
C3_Witness ==
    /\ IsLookup(last)
    /\ Keys(last.ret.dict) = {"vocals"}
    /\ Len(last.ret.dict) = 1

\* C4: the lookup returns None when the key's directory does not exist or
\* holds none of the four stem files.
C4_Miss ==
    IsLookup(last) =>
        LET dir == LookupCacheDir(disk, last.input_path, last.model)
        IN  /\ (~Exists(disk, dir) \/ Present(disk, dir) = {}) => last.ret = RetNone
            /\ IsFile(disk, last.input_path)

\* a miss on a directory that exists and is empty
C4_Witness ==
    /\ IsLookup(last) /\ last.ret = RetNone
    /\ Exists(disk, LookupCacheDir(disk, last.input_path, last.model))

\* C5: a lookup, hit or miss, changes neither the disk nor the session.
C5_LookupReadOnly ==
    [][last'.op = "get_cached_stems" => (disk' = disk /\ session' = session)]_vars

\* a hit on a cache that holds an entry
C5_Witness ==
    /\ IsLookup(last) /\ last.ret.tag = "dict"
    /\ Len(last.ret.dict) = 4

\* the files a store of dict S into directory dir writes
Targets(dir, S) == {Join(dir, StemFile(k)) : k \in Keys(S)}

\* C6: a store that returns creates the key's directory, leaves under each
\* name of the set the content of the file the set referenced, and changes
\* no other file and no other directory.
C6_StoreSemantics ==
    [][IsStore(last') =>
          LET dir == StoreCacheDir(disk, last'.input_path, last'.model)
              S == last'.stem_paths
          IN  /\ dir \in disk'.dirs
              /\ disk'.dirs = disk.dirs \cup {dir}
              /\ \A k \in Keys(S) :
                    /\ IsFile(disk', Join(dir, StemFile(k)))
                    /\ disk'.files[Join(dir, StemFile(k))].blob
                          = disk.files[Get(S, k)].blob
              /\ DOMAIN disk'.files = DOMAIN disk.files \cup Targets(dir, S)
              /\ \A q \in DOMAIN disk.files \ Targets(dir, S) :
                    disk'.files[q] = disk.files[q]]_vars

\* a store of vocals alone into a directory that already held all four
\* stems, the new vocals differing from the old one
C6_Witness ==
    /\ IsStore(last)
    /\ Keys(last.stem_paths) = {"vocals"}
    /\ last.had = {"vocals", "drums", "bass", "other"}
    /\ last.replaced = {"vocals"}

----------------------------------------------------------------------------
(* The remix functions called directly *)

WaveLong == [sr |-> 44100, ch |-> 2, num |-> <<1, 1, -1>>, den |-> 2]

\* a decodable upload whose stems are longer than those of BlobA, so that
\* they cannot be added to them
BlobLong == [size |-> 1, dec |-> DECODERS, wave |-> WaveLong]

\* the four stems of one input, whether or not they were written
FullSet(p) == DictOver(MODEL_SOURCES, {"vocals", "drums", "bass", "other"}, StemFolder(p))

\* the stems of p, with the vocals of q in place of its own
HybridSet(p, q) == Put(FullSet(p), "vocals", Join(StemFolder(q), StemFile("vocals")))

MIX_SETS == {EmptyDict, FullSet(P1), HybridSet(P1, P2)}

MIX_SELECTIONS ==
    { NoneList, List(<<>>), List(<<"vocals">>), List(<<"vocals", "drums">>),
      List(<<"vocals", "drums", "bass">>), List(<<"drums", "vocals", "bass">>),
      List(<<"drums", "bass", "other", "vocals">>) }

MIX_OUT == <<"temp", "mix", "out.wav">>

CallMixStems(S, out, include, saveFault) ==
    /\ steps < MaxSteps
    /\ \E r \in {MixStems(disk, S, out, include, saveFault, now)} :
           /\ disk' = r.disk
           /\ last' = [NoCall EXCEPT !.op = "mix_stems", !.input_path = out,
                                     !.stem_paths = S, !.include = include,
                                     !.fault = saveFault, !.ret = r.ret]
    /\ steps' = steps + 1
    /\ UNCHANGED <<now, session, memo, widgets, stores>>

CallCreateCustomMix(S, include, saveFault) ==
    /\ steps < MaxSteps
    /\ \E r \in {CreateCustomMix(disk, S, include, saveFault, now)} :
           /\ disk' = r.disk
           /\ last' = [NoCall EXCEPT !.op = "create_custom_mix",
                                     !.stem_paths = S, !.include = include,
                                     !.fault = saveFault, !.ret = r.ret]
    /\ steps' = steps + 1
    /\ UNCHANGED <<now, session, memo, widgets, stores>>

\* time passes
Tick(dt) ==
    /\ steps < MaxSteps
    /\ now' = now + dt
    /\ last' = [NoCall EXCEPT !.op = "tick"]
    /\ steps' = steps + 1
    /\ UNCHANGED <<disk, session, memo, widgets, stores>>

MixNext ==
    \/ WriteUpload(P1, BlobA)
    \/ WriteUpload(P2, BlobLong)
    \/ \E p \in Inputs(disk) : CallSeparateAudio(p, "htdemucs", FALSE, 0)
    \/ \E S \in MIX_SETS, inc \in MIX_SELECTIONS, f \in {0, 2} :
          CallMixStems(S, MIX_OUT, inc, f)
    \/ \E S \in MIX_SETS, inc \in MIX_SELECTIONS, f \in {0, 2} :
          CallCreateCustomMix(S, inc, f)
    \/ Tick(1)

MixSpec == Init /\ [][MixNext]_vars

----------------------------------------------------------------------------
(* Claims about the remix, checked under MixSpec *)

IsMix(c) == c.op \in {"mix_stems", "create_custom_mix"}

\* C9: with an empty or missing selection both mix functions return None
\* and leave every file and directory as it was.
C9_MixEmptiness ==
    [][(IsMix(last') /\ Falsy(last'.include)) =>
          (last'.ret = RetNone /\ disk' = disk)]_vars

\* mix_stems has returned from an empty selection over four stems that load
C9_Witness ==
    /\ last.op = "mix_stems"
    /\ last.include = List(<<>>)
    /\ last.stem_paths = FullSet(P1)
    /\ \A k \in Keys(last.stem_paths) : CanLoad(disk, Get(last.stem_paths, k))

\* the waveform a mix call wrote
Written == disk.files[last.ret.path].blob.wave

\* the sum the call accumulated before it normalized
Summed == MixSum(disk, last.stem_paths, last.include.items).mixed

\* C10: a mix that wrote a file wrote a waveform whose peak is at most 0.9:
\* 0.9 times the sum over the sum's peak when the sum is not all zero, the
\* all-zero sum itself otherwise.
C10_MixNormalization ==
    (IsMix(last) /\ last.ret.tag = "path") =>
        /\ Written.den > 0
        /\ 10 * PeakNum(Written) <= 9 * Written.den
        /\ Len(Written.num) = Len(Summed.num)
        /\ PeakNum(Summed) > 0 =>
              \A i \in DOMAIN Summed.num :
                  Written.num[i] * 10 * PeakNum(Summed) = 9 * Summed.num[i] * Written.den
        /\ PeakNum(Summed) = 0 =>
              (Written.num = Summed.num /\ Written.den = Summed.den)

\* a written mix of two stems that cancel out, left unscaled
C10_WitnessZero ==
    /\ IsMix(last) /\ last.ret.tag = "path"
    /\ last.include = List(<<"vocals", "drums">>)
    /\ PeakNum(Written) = 0

\* a written mix of three stems that load, scaled so that its peak is 0.9
C10_Witness ==
    /\ IsMix(last) /\ last.ret.tag = "path"
    /\ last.include = List(<<"vocals", "drums", "bass">>)
    /\ last.stem_paths = FullSet(P1)
    /\ 10 * PeakNum(Written) = 9 * Written.den

----------------------------------------------------------------------------
(* The Streamlit script: main() runs from top to bottom on every interaction *)

\* hash(uploaded_file.name) % 10000, fixed for the life of the process
NameHash(name) == IF name = "a.wav" THEN 17 ELSE 23

SessionDir(t, name) ==
    Join(TEMP_DIR, ToString(t) \o "_" \o ToString(NameHash(name)))

\* st.cache_data stores a result under the arguments of the call only when
\* the call returns
Memoize(mem, key, r) ==
    [disk |-> r.disk,
     memo |-> IF r.ret.tag = "dict" THEN (key :> r.ret.dict) @@ mem ELSE mem,
     ret |-> r.ret, engine |-> r.engine]

\* cached_separate_audio: the stored result comes back for arguments seen
\* before (the device argument is fixed), without running separate_audio
CachedSeparateAudio(d, mem, input_path, output_dir, model_name, engineFails, saveFault, t) ==
    LET key == <<input_path, output_dir, model_name>>
    IN  IF key \in DOMAIN mem
        THEN [disk |-> d, memo |-> mem, ret |-> RetDict(mem[key]), engine |-> FALSE]
        ELSE Memoize(mem, key, SeparateAudio(d, input_path, output_dir, model_name,
                                             engineFails, saveFault, t))

\* (faulty variant) the cache is consulted whatever the checkbox says
LookupAlways(d, input_path, model_name, use_cached) ==
    GetCachedStems(d, input_path, model_name)

\* cached_stems = None; if use_cached: cached_stems = get_cached_stems(...)
LookupIfEnabled(d, input_path, model_name, use_cached) ==
    IF use_cached
    THEN GetCachedStems(d, input_path, model_name)
    ELSE [disk |-> d, ret |-> RetNone, msgs |-> {}]

\* the except branch: the session keeps what it held
SeparationFailed(ss, look, looked, sep, dsk, store) ==
    [disk |-> dsk, memo |-> sep.memo, session |-> ss,
     msgs |-> look.msgs \cup {"error: separation failed",
                              "info: try a different model or format"},
     looked |-> looked, hit |-> FALSE, engine |-> sep.engine, store |-> store]

\* after save_to_cache: its exception reaches the except branch; otherwise
\* the session takes the stems when the dict is not empty
AfterSaveToCache(ss, look, looked, sep, sav) ==
    IF sav.raised THEN SeparationFailed(ss, look, looked, sep, sav.disk, "raised")
    ELSE [disk |-> sav.disk, memo |-> sep.memo,
          session |-> IF Truthy(sep.ret) THEN [ss EXCEPT !.stem_paths = sep.ret] ELSE ss,
          msgs |-> look.msgs \cup sav.msgs \cup {"progress: processing complete"}
                     \cup (IF Truthy(sep.ret) THEN {"success: stems separated"} ELSE {}),
          looked |-> looked, hit |-> FALSE, engine |-> sep.engine, store |-> "ok"]

\* the try body after cached_separate_audio gave sep
AfterSeparation(ss, look, looked, sep, input_path, model_name, failAt) ==
    IF sep.ret.tag = "raise" THEN SeparationFailed(ss, look, looked, sep, sep.disk, "none")
    ELSE AfterSaveToCache(ss, look, looked, sep,
                          SaveToCache(sep.disk, input_path, model_name, sep.ret.dict, failAt))

\* `if cached_stems: ... else: ...` with look the outcome of the lookup
AfterLookup(look, looked, mem, ss, input_path, output_dir, model_name, engineFails, saveFault, failAt, t) ==
    IF Truthy(look.ret)
    THEN [disk |-> look.disk, memo |-> mem,
          session |-> [ss EXCEPT !.stem_paths = look.ret],
          msgs |-> look.msgs \cup {"success: using cached stems"},
          looked |-> TRUE, hit |-> TRUE, engine |-> FALSE, store |-> "none"]
    ELSE AfterSeparation(ss, look, looked,
                         CachedSeparateAudio(look.disk, mem, input_path, output_dir,
                                             model_name, engineFails, saveFault, t),
                         input_path, model_name, failAt)

\* (faulty variant) the press handler never consults the cache
SeparatePressedNoLookup(d, mem, ss, input_path, output_dir, model_name, use_cached, engineFails, saveFault, failAt, t) ==
    AfterLookup(LookupIfEnabled(d, input_path, model_name, FALSE), FALSE, mem, ss,
                input_path, output_dir, model_name, engineFails, saveFault, failAt, t)

\* (faulty variant) a separation that raises is tried again, and succeeds
SeparatePressedRetrying(d, mem, ss, input_path, output_dir, model_name, use_cached, engineFails, saveFault, failAt, t) ==
    AfterLookup(LookupIfEnabled(d, input_path, model_name, use_cached), use_cached, mem, ss,
                input_path, output_dir, model_name, FALSE, saveFault, failAt, t)

\* the body of `if st.button("Separate Stems")`
SeparatePressed(d, mem, ss, input_path, output_dir, model_name, use_cached, engineFails, saveFault, failAt, t) ==
    AfterLookup(LookupIfEnabled(d, input_path, model_name, use_cached), use_cached, mem, ss,
                input_path, output_dir, model_name, engineFails, saveFault, failAt, t)

\* the run when Separate Stems was not pressed
NotPressed(d, mem, ss) ==
    [disk |-> d, memo |-> mem, session |-> ss, msgs |-> {},
     looked |-> FALSE, hit |-> FALSE, engine |-> FALSE, store |-> "none"]

\* create_3d_visualization writes a downsampled mono 16-bit copy of every
\* stem it can read under temp/visualization
VISUALIZATION_DIR == Join(TEMP_DIR, "visualization")

Downsampled(blob) == WavBlob(ToInt16([blob.wave EXCEPT !.sr = 32000, !.ch = 1]))

RECURSIVE Visualize(_, _, _, _)
Visualize(d, stem_paths, i, t) ==
    IF i > Len(stem_paths) THEN d
    ELSE LET path == stem_paths[i][2]
             out == Join(VISUALIZATION_DIR, stem_paths[i][1] \o "_downsampled.wav")
         IN  IF IsFile(d, path) /\ "librosa" \in d.files[path].blob.dec
             THEN Visualize(WriteBlob(d, out, Downsampled(d.files[path].blob), t),
                            stem_paths, i + 1, t)
             ELSE Visualize(d, stem_paths, i + 1, t)

\* the checked stems, in the order of the session's dict
SelectedStems(stem_paths, unchecked) ==
    LET names == [i \in DOMAIN stem_paths |-> stem_paths[i][1]]
        Test(x) == x \notin unchecked
    IN  SelectSeq(names, Test)

\* what the Create Mix button did
MixResult(mix) ==
    [disk |-> mix.disk, ret |-> mix.ret,
     msgs |-> IF mix.ret.tag = "path" THEN {"success: custom mix created"}
              ELSE {"error: failed to create mix"}]

\* the custom mix section: the checkboxes, then the Create Mix button
MixSection(d, stem_paths, w, press, mixFault, t) ==
    LET selected_stems == SelectedStems(stem_paths, w.unchecked)
    IN  IF press = "mix" /\ Len(selected_stems) > 0
        THEN MixResult(CreateCustomMix(d, stem_paths, List(selected_stems), mixFault, t))
        ELSE [disk |-> d, ret |-> RetNone, msgs |-> {}]

\* `if "stem_paths" in st.session_state`: the tabs, the visualization and the
\* custom mix section
DisplayStems(d, ss, w, press, mixFault, t) ==
    IF Truthy(ss.stem_paths)
    THEN MixSection(Visualize(MakeDirs(d, VISUALIZATION_DIR), ss.stem_paths.dict, 1, t),
                    ss.stem_paths.dict, w, press, mixFault, t)
    ELSE [disk |-> d, ret |-> RetNone, msgs |-> {}]

\* the state a run with an uploaded file leaves, and the record of the run
MainResult(d, w, press, input_path, cleaned, sep, disp) ==
    [disk |-> disp.disk, memo |-> sep.memo,
     session |-> IF disp.ret.tag = "path"
                 THEN [sep.session EXCEPT !.mix_file = disp.ret]
                 ELSE sep.session,
     widgets |-> IF Truthy(sep.session.stem_paths) THEN w ELSE [w EXCEPT !.unchecked = {}],
     last |-> [NoCall EXCEPT !.op = "run", !.pressed = press,
                             !.input_path = input_path, !.model = w.model,
                             !.use_cached = w.use_cached,
                             !.looked = sep.looked, !.hit = sep.hit,
                             !.engine = sep.engine, !.store = sep.store,
                             !.cleaned = cleaned, !.ret = disp.ret,
                             !.had = Present(d, LookupCacheDir(disp.disk, input_path, w.model)),
                             !.replaced = Replaced(d, disp.disk,
                                            LookupCacheDir(disp.disk, input_path, w.model)),
                             !.msgs = sep.msgs \cup disp.msgs]]

\* the rest of main() once the press handler gave sep
AfterPress(d, w, press, input_path, cleaned, mixFault, t, sep) ==
    MainResult(d, w, press, input_path, cleaned, sep,
               DisplayStems(sep.disk, sep.session, w, press, mixFault, t))

\* the run when saving the upload raises (os.makedirs or open, outside any
\* try): the exception leaves main(); the widgets the script did not reach
\* are dropped and come back with their default values
UploadNotSaved(d1, mem, ss, w, press, cleaned) ==
    [disk |-> d1, memo |-> mem, session |-> ss,
     widgets |-> [w EXCEPT !.model = NoWidgets.model, !.use_cached = NoWidgets.use_cached,
                           !.unchecked = {}],
     last |-> [NoCall EXCEPT !.op = "run", !.pressed = press, !.cleaned = cleaned,
                             !.escaped = TRUE]]

\* main(): one run of the script from top to bottom with widget values w;
\* press names the button clicked ("separate", "mix" or "none"), the rest
\* are the failures of this run.  The result is the state the run leaves and
\* the record of what it did.
Main(d, mem, ss, w, press, uploadFails, engineFails, saveFault, failAt, mixFault, t) ==
    LET d1 == CleanupTempFiles(d, MAX_AGE_HOURS, {}, t)
        cleaned == DOMAIN d.files \ DOMAIN d1.files
        session_temp_dir == SessionDir(t, w.name)
        input_path == Join(session_temp_dir, w.name)
        output_dir == Join(session_temp_dir, "stems")
        d2 == WriteBlob(MakeDirs(d1, session_temp_dir), input_path, w.blob, t)
    IN  IF ~w.has
        THEN [disk |-> d1, memo |-> mem, session |-> ss, widgets |-> w,
              last |-> [NoCall EXCEPT !.op = "run", !.cleaned = cleaned]]
        ELSE IF uploadFails THEN UploadNotSaved(d1, mem, ss, w, press, cleaned)
        ELSE AfterPress(d, w, press, input_path, cleaned, mixFault, t,
                        IF press = "separate"
                        THEN SeparatePressed(d2, mem, ss, input_path, output_dir, w.model,
                                             w.use_cached, engineFails, saveFault, failAt, t)
                        ELSE NotPressed(d2, mem, ss))

\* an interaction: Streamlit re-runs main() with the new widget values
Run(w, press, uploadFails, engineFails, saveFault, failAt, mixFault) ==
    /\ steps < MaxRuns
    /\ steps' = steps + 1
    /\ UNCHANGED <<now, stores>>
    /\ \E r \in {Main(disk, memo, session, w, press, uploadFails, engineFails,
                      saveFault, failAt, mixFault, now)} :
          /\ disk' = r.disk
          /\ memo' = r.memo
          /\ session' = r.session
          /\ widgets' = r.widgets
          /\ last' = [r.last EXCEPT !.engine_fault = engineFails]

\* the user interactions
AppUpload(name, blob, uploadFails) ==
    Run([widgets EXCEPT !.has = TRUE, !.name = name, !.blob = blob], "none",
        uploadFails, FALSE, 0, 0, 0)

AppSelectModel(m) ==
    /\ widgets.has /\ m # widgets.model
    /\ Run([widgets EXCEPT !.model = m], "none", FALSE, FALSE, 0, 0, 0)

AppToggleUseCached ==
    /\ widgets.has
    /\ Run([widgets EXCEPT !.use_cached = ~@], "none", FALSE, FALSE, 0, 0, 0)

AppToggleStem(k) ==
    /\ widgets.has /\ Truthy(session.stem_paths)
    /\ k \in Keys(session.stem_paths.dict)
    /\ Run([widgets EXCEPT !.unchecked = IF k \in @ THEN @ \ {k} ELSE @ \cup {k}],
           "none", FALSE, FALSE, 0, 0, 0)

AppPressSeparate(engineFails, saveFault, failAt) ==
    /\ widgets.has
    /\ Run(widgets, "separate", FALSE, engineFails, saveFault, failAt, 0)

AppPressMix(mixFault) ==
    /\ widgets.has /\ Truthy(session.stem_paths)
    /\ Run(widgets, "mix", FALSE, FALSE, 0, 0, mixFault)

\* time passes between two interactions
AppTick(dt) ==
    /\ steps < MaxRuns
    /\ steps' = steps + 1
    /\ now' = now + dt
    /\ last' = [NoCall EXCEPT !.op = "tick"]
    /\ UNCHANGED <<disk, session, memo, widgets, stores>>

APP_UPLOADS == {BlobA, BlobA2, BlobBad}

APP_TICKS == {1, 24 * 60 * 60 + 1}

\* the failures of one press of Separate Stems: none, the engine raises, the
\* second copy into the cache raises
PRESS_FAULTS == {<<FALSE, 0, 0>>, <<TRUE, 0, 0>>, <<FALSE, 0, 2>>}

AppNext ==
    \/ \E b \in APP_UPLOADS : AppUpload("a.wav", b, FALSE)
    \/ AppUpload("a.wav", BlobA, TRUE)
    \/ \E m \in TRIED_MODELS : AppSelectModel(m)
    \/ AppToggleUseCached
    \/ \E k \in {"vocals", "drums"} : AppToggleStem(k)
    \/ \E f \in PRESS_FAULTS : AppPressSeparate(f[1], f[2], f[3])
    \/ AppPressMix(0)
    \/ \E dt \in APP_TICKS : AppTick(dt)

AppSpec == Init /\ [][AppNext]_vars

----------------------------------------------------------------------------
(* Claims about the cache under the Streamlit script *)

CacheFiles(d) == {p \in DOMAIN d.files : IsUnder(p, DEV_CACHE_DIR)}

CacheDirs(d) == {p \in d.dirs : IsUnder(p, DEV_CACHE_DIR)}

\* the cache files of the pre-state whose content the step changed
ChangedByStep == {p \in CacheFiles(disk) : p \in DOMAIN disk'.files
                                           /\ disk'.files[p].blob # disk.files[p].blob}

\* the cache files the step created
AddedByStep == CacheFiles(disk') \ CacheFiles(disk)

IsRun == last.op = "run" /\ last.input_path # NoPath

\* C7 as stated: no interaction changes the content of a stem file that a
\* cache entry already holds.
C7_EntriesNeverChange == [][ChangedByStep = {}]_vars

\* C7 (amended): an interaction changes or extends the cache only when it is
\* a press of Separate Stems, and then only under the key of the uploaded
\* file and selected model; with the use-cached option on, the press changes
\* no stored stem file and adds stem files only to an entry that held none.
C7_EntriesReadOnly ==
    [][ /\ (ChangedByStep \cup AddedByStep # {}) =>
             /\ last'.op = "run" /\ last'.pressed = "separate"
             /\ \A p \in ChangedByStep \cup AddedByStep :
                    Dirname(p) = LookupCacheDir(disk', last'.input_path, last'.model)
        /\ (last'.op = "run" /\ last'.use_cached) =>
             /\ ChangedByStep = {}
             /\ AddedByStep # {} =>
                    Present(disk, LookupCacheDir(disk', last'.input_path, last'.model)) = {}
      ]_vars

\* Separate Stems was pressed with the use-cached option on for a key whose
\* entry holds stems: the entry was served and the engine did not run
C7_Witness ==
    /\ IsRun /\ last.pressed = "separate" /\ last.use_cached /\ last.hit
    /\ Present(disk, LookupCacheDir(disk, last.input_path, last.model)) # {}

\* Separate Stems pressed with the use-cached option off overwrote stems of
\* an existing entry with other content
C7_OverwriteReached ==
    IsRun /\ last.pressed = "separate" /\ ~last.use_cached /\ last.replaced # {}

\* C8: no step removes a file or a directory under the cache root, and every
\* file a step removes lies under the temp directory.
C8_NeverEvicted ==
    [][ /\ CacheFiles(disk) \subseteq CacheFiles(disk')
        /\ CacheDirs(disk) \subseteq CacheDirs(disk')
        /\ \A p \in DOMAIN disk.files \ DOMAIN disk'.files : IsUnder(p, TEMP_DIR)
      ]_vars

\* a run whose cleanup removed temp files while the cache holds a stem file
\* older than the maximum age
C8_Witness ==
    /\ last.op = "run" /\ last.cleaned # {}
    /\ \E p \in CacheFiles(disk) : now - disk.files[p].mtime > MAX_AGE_HOURS * 3600

----------------------------------------------------------------------------
(* The sum of a set of stems, computed from the set and not by the loop *)

\* the positions of the selection whose stem is in the set and loads
Loadable(d, S, inc) ==
    {i \in DOMAIN inc : inc[i] \in Keys(S) /\ CanLoad(d, Get(S, inc[i]))}

WaveOf(d, S, inc, i) == Load(d, Get(S, inc[i]))

\* the positions whose stem joins the sum: the first that loads, and every
\* later one of its length (no input here has one sample or one channel)
Joined(d, S, inc) ==
    LET L == Loadable(d, S, inc)
        first == CHOOSE i \in L : \A j \in L : i <= j
    IN  {i \in L : Len(WaveOf(d, S, inc, i).num) = Len(WaveOf(d, S, inc, first).num)}

RECURSIVE DenProduct(_, _, _, _)
DenProduct(d, S, inc, I) ==
    IF I = {} THEN 1
    ELSE LET i == CHOOSE x \in I : TRUE
         IN  WaveOf(d, S, inc, i).den * DenProduct(d, S, inc, I \ {i})

\* sample j of the sum of the waves at positions I, over DenProduct of I
RECURSIVE SumNumAt(_, _, _, _, _)
SumNumAt(d, S, inc, I, j) ==
    IF I = {} THEN 0
    ELSE LET i == CHOOSE x \in I : TRUE
             rest == I \ {i}
         IN  WaveOf(d, S, inc, i).num[j] * DenProduct(d, S, inc, rest)
               + WaveOf(d, S, inc, i).den * SumNumAt(d, S, inc, rest, j)

\* the largest absolute value of a non-empty set of integers
MaxAbs(X) == CHOOSE m \in {Abs(x) : x \in X} : \A x \in X : Abs(x) <= m

\* C11: when at least one selected stem loads and the output can be saved,
\* the mix call returns a path, and the waveform it wrote is the normalized
\* sample-wise sum of exactly the selected stems that loaded and could be
\* added, wherever the failing stems stand in the selection.
C11_PartialMixTolerance ==
    (IsMix(last) /\ ~Falsy(last.include) /\ last.fault < 2
       /\ Loadable(disk, last.stem_paths, last.include.items) # {}) =>
        LET inc == last.include.items
            I == Joined(disk, last.stem_paths, inc)
            n == Len(WaveOf(disk, last.stem_paths, inc, CHOOSE i \in I : TRUE).num)
            sum == [j \in 1..n |-> SumNumAt(disk, last.stem_paths, inc, I, j)]
            peak == MaxAbs({sum[j] : j \in 1..n})
        IN  /\ last.ret.tag = "path"
            /\ Len(Written.num) = n
            /\ \A j \in 1..n :
                  IF peak = 0 THEN Written.num[j] = 0
                  ELSE Written.num[j] * 10 * peak = 9 * sum[j] * Written.den

\* a mix of drums, vocals and bass was written although the vocals, in the
\* middle of the selection, loaded but could not be added
C11_Witness ==
    /\ last.op = "mix_stems" /\ last.ret.tag = "path"
    /\ last.include = List(<<"drums", "vocals", "bass">>)
    /\ Loadable(disk, last.stem_paths, last.include.items) = {1, 2, 3}
    /\ Joined(disk, last.stem_paths, last.include.items) = {1, 3}

\* a mix was written although the first selected stem is missing
C11_WitnessFirstMissing ==
    /\ last.op = "mix_stems" /\ last.ret.tag = "path"
    /\ last.include = List(<<"vocals", "drums", "bass">>)
    /\ Loadable(disk, last.stem_paths, last.include.items) = {2, 3}

----------------------------------------------------------------------------
(* Claims about the Streamlit script, checked under AppSpec *)

IsMixRun(c) == c.op = "run" /\ c.pressed = "mix" /\ c.ret.tag = "path"

\* C12 as stated: the file a successful Create Mix returns did not exist
\* before the press, so that no earlier mix is overwritten.
C12_MixWritesNewFile ==
    [][IsMixRun(last') => ~IsFile(disk, last'.ret.path)]_vars

\* the dict a lookup returns from a directory that holds all four stems
FourCached(dir) == [i \in DOMAIN STEM_NAMES |-> <<STEM_NAMES[i], Join(dir, StemFile(STEM_NAMES[i]))>>]

\* C13: when the entry of the uploaded file's key holds all four stems, a
\* press of Separate Stems with the use-cached option on takes the four
\* stems from that directory into the session and does not run the engine.
C13_NoReinvocationOnHit ==
    [][(last'.op = "run" /\ last'.pressed = "separate" /\ last'.use_cached
          /\ Present(disk, LookupCacheDir(disk', last'.input_path, last'.model))
                = {"vocals", "drums", "bass", "other"}) =>
          /\ last'.hit /\ ~last'.engine /\ last'.store = "none"
          /\ session'.stem_paths
                = RetDict(FourCached(LookupCacheDir(disk', last'.input_path, last'.model)))
      ]_vars

\* a press in a later session, whose directory holds no stems of its own,
\* was served the four stems of the cache
C13_Witness ==
    /\ IsRun /\ last.pressed = "separate" /\ last.use_cached /\ last.hit
    /\ ~last.engine
    /\ Len(session.stem_paths.dict) = 4
    /\ ~Exists(disk, Join(Dirname(last.input_path), "stems"))

\* C14 as stated: no run of main() ends with an exception that escaped it.
C14_NoExceptionEscapes == last.op = "run" => ~last.escaped

\* every decoding strategy fails for the uploaded file
Undecodable(w) == w.has /\ ~Decode(w.name, w.blob, MODEL_SAMPLERATE).ok

SUCCESS_MESSAGES ==
    {"success: using cached stems", "success: stems separated", "success: stems cached",
     "progress: processing complete"}

\* C15 as stated: a press of Separate Stems for an upload that no strategy
\* decodes shows an error and no success or completion message, leaves the
\* session's stems as they were and creates no cache directory.
C15_DecodeFailureSurfaced ==
    [][(last'.op = "run" /\ last'.pressed = "separate" /\ Undecodable(widgets')) =>
          /\ "error: separation failed" \in last'.msgs
          /\ last'.msgs \cap SUCCESS_MESSAGES = {}
          /\ session'.stem_paths = session.stem_paths
          /\ CacheDirs(disk') = CacheDirs(disk)
      ]_vars

\* the engine ran in this press and raised
EngineRaised(c) == c.op = "run" /\ c.pressed = "separate" /\ c.engine /\ c.engine_fault

\* C16: when the engine raises in a press of Separate Stems, the app shows
\* the error and the suggestion, stores nothing (the cache and the memoized
\* results are as before) and leaves the session as it was.
C16_EngineFailureHandling ==
    [][EngineRaised(last') =>
          /\ {"error: separation failed", "info: try a different model or format"}
                \subseteq last'.msgs
          /\ last'.store = "none"
          /\ CacheFiles(disk') = CacheFiles(disk) /\ ChangedByStep = {}
          /\ CacheDirs(disk') = CacheDirs(disk)
          /\ memo' = memo
          /\ session' = session
      ]_vars

\* the engine raised in a press made while the session held the stems of
\* an earlier separation, which are still there
C16_Witness ==
    /\ EngineRaised(last)
    /\ "error: separation failed" \in last.msgs
    /\ Truthy(session.stem_paths)

\* A store that fails, checked under SaveSpec.

StoreFailed(c) == c.op = "save_to_cache" /\ c.fault # 0

\* the file a path names is the same on two disks, or is missing on both
SameFile(d, e, q) ==
    /\ IsFile(d, q) <=> IsFile(e, q)
    /\ IsFile(d, q) => d.files[q] = e.files[q]

\* C17: a file system error in save_to_cache reaches the caller and no
\* success message is shown; an error in getsize or makedirs leaves the disk
\* as it was; an error in copy number k leaves the copies 1..k-1 in the
\* key's directory, makes no copy from k on and touches no other file.
C17_StoreFailure ==
    [][StoreFailed(last') =>
          LET dir == StoreCacheDir(disk, last'.input_path, last'.model)
              S == last'.stem_paths
              k == last'.fault
          IN  /\ last'.ret = RetRaise
              /\ last'.msgs = {}
              /\ k < 0 => disk' = disk
              /\ k > 0 =>
                    /\ disk'.dirs = disk.dirs \cup {dir}
                    /\ \A i \in 1..Len(S) :
                          IF i < k
                          THEN /\ IsFile(disk', Join(dir, StemFile(S[i][1])))
                               /\ disk'.files[Join(dir, StemFile(S[i][1]))].blob
                                     = disk.files[S[i][2]].blob
                          ELSE SameFile(disk', disk, Join(dir, StemFile(S[i][1])))
                    /\ \A q \in DOMAIN disk.files \ Targets(dir, S) :
                          SameFile(disk', disk, q)
      ]_vars

\* a store whose second copy failed: the first stem is in the key's
\* directory, the second is not
C17_Witness ==
    /\ StoreFailed(last) /\ last.fault = 2 /\ last.ret = RetRaise
    /\ IsFile(disk, last.input_path)
    /\ LET dir == StoreCacheDir(disk, last.input_path, last.model)
           S == last.stem_paths
       IN  /\ IsFile(disk, Join(dir, StemFile(S[1][1])))
           /\ ~IsFile(disk, Join(dir, StemFile(S[2][1])))

\* a store in which os.makedirs or os.path.getsize failed
C17_WitnessEarly == StoreFailed(last) /\ last.fault < 0 /\ last.ret = RetRaise

----------------------------------------------------------------------------
(* create_stem_mix and the command line of separation.py *)

\* what torch.cuda.is_available() makes of DEVICE on the machine
DEVICES == {"cuda", "cpu"}

OUTPUT_NAME == "custom_mix.wav"

\* (faulty variant) the flags are ignored
StemsToMixAll(stem_paths, vocals, drums, bass, other) ==
    InOrder(<<"vocals", "drums", "bass", "other">>, Keys(stem_paths))

StemsToMix(stem_paths, vocals, drums, bass, other) ==
    (IF vocals /\ "vocals" \in Keys(stem_paths) THEN <<"vocals">> ELSE <<>>)
    \o (IF drums /\ "drums" \in Keys(stem_paths) THEN <<"drums">> ELSE <<>>)
    \o (IF bass /\ "bass" \in Keys(stem_paths) THEN <<"bass">> ELSE <<>>)
    \o (IF other /\ "other" \in Keys(stem_paths) THEN <<"other">> ELSE <<>>)

MixPath(input_file, output_dir, output_name) ==
    Join(Join(output_dir, SplitExt(Basename(input_file)).base), output_name)

\* the call of mix_stems that ends create_stem_mix
MixChosen(sep, stems_to_mix, mixed) ==
    [disk |-> mixed.disk, ret |-> mixed.ret, stem_paths |-> sep.ret.dict,
     include |-> List(stems_to_mix), engine |-> sep.engine]

\* create_stem_mix after its call of separate_audio
MixSeparated(sep, mix_path, vocals, drums, bass, other, mixFault, t) ==
    IF sep.ret.tag = "raise"
    THEN [disk |-> sep.disk, ret |-> RetRaise, stem_paths |-> EmptyDict,
          include |-> NoneList, engine |-> sep.engine]
    ELSE IF Len(sep.ret.dict) = 0
    THEN [disk |-> sep.disk, ret |-> RetNone, stem_paths |-> EmptyDict,
          include |-> NoneList, engine |-> sep.engine]
    ELSE MixChosen(sep, StemsToMix(sep.ret.dict, vocals, drums, bass, other),
                   MixStems(sep.disk, sep.ret.dict, mix_path,
                            List(StemsToMix(sep.ret.dict, vocals, drums, bass, other)),
                            mixFault, t))

CreateStemMix(d, input_file, output_dir, output_name, vocals, drums, bass, other, model_name, engineFails, saveFault, mixFault, t) ==
    MixSeparated(SeparateAudio(d, input_file, output_dir, model_name, engineFails, saveFault, t),
                 MixPath(input_file, output_dir, output_name),
                 vocals, drums, bass, other, mixFault, t)

\* the else branch of main(): separate_audio alone
SeparateOnly(sep) ==
    [disk |-> sep.disk, ret |-> sep.ret, include |-> NoneList, engine |-> sep.engine,
     stem_paths |-> IF sep.ret.tag = "dict" THEN sep.ret.dict ELSE EmptyDict]

\* main() of separation.py: args holds --mix, --cpu and the --no-<stem> flags given
CliMain(d, input_file, output_dir, model, args, engineFails, saveFault, mixFault, t) ==
    IF args.mix
    THEN CreateStemMix(d, input_file, output_dir, OUTPUT_NAME,
                       "vocals" \notin args.no, "drums" \notin args.no,
                       "bass" \notin args.no, "other" \notin args.no,
                       model, engineFails, saveFault, mixFault, t)
    ELSE SeparateOnly(SeparateAudio(d, input_file, output_dir, model, engineFails, saveFault, t))

\* the device main() hands on
CliDevice(args, DEVICE) == IF args.cpu THEN "cpu" ELSE DEVICE

CLI_OUTPUT_DIR == <<"out">>

\* the --no-<stem> flags tried together
CLI_NO_FLAGS == { {}, {"drums"}, {"vocals", "other"}, {"vocals", "drums", "bass", "other"} }

CLI_ARGS == [mix : BOOLEAN, cpu : BOOLEAN, no : CLI_NO_FLAGS]

\* engineFails, saveFault, mixFault
CLI_FAULTS == { <<TRUE, 0, 0>>, <<FALSE, 0, 2>> }

\* the command lines tried with a fault
CLI_FAULTY_ARGS ==
    { [mix |-> TRUE, cpu |-> FALSE, no |-> {}],
      [mix |-> TRUE, cpu |-> FALSE, no |-> {"vocals", "drums", "bass", "other"}] }

CallCliMain(p, model, args, DEVICE, engineFails, saveFault, mixFault) ==
    /\ steps < MaxCalls
    /\ \E r \in {CliMain(disk, p, CLI_OUTPUT_DIR, model, args, engineFails, saveFault, mixFault, now)} :
           /\ disk' = r.disk
           /\ last' = [NoCall EXCEPT !.op = "cli", !.input_path = p, !.model = model,
                                     !.args = args, !.device = CliDevice(args, DEVICE),
                                     !.stem_paths = r.stem_paths, !.include = r.include,
                                     !.engine = r.engine, !.engine_fault = engineFails,
                                     !.fault = mixFault, !.ret = r.ret]
    /\ steps' = steps + 1
    /\ UNCHANGED <<now, session, memo, widgets, stores>>

CliNext ==
    \/ \E b \in {BlobA, BlobBad} : WriteUpload(P1, b)
    \/ WriteUpload(P2, BlobLong)
    \/ \E p \in Inputs(disk), m \in TRIED_MODELS, a \in CLI_ARGS, dev \in DEVICES :
          CallCliMain(p, m, a, dev, FALSE, 0, 0)
    \/ \E p \in Inputs(disk), a \in CLI_FAULTY_ARGS, f \in CLI_FAULTS :
          CallCliMain(p, "htdemucs", a, "cuda", f[1], f[2], f[3])

CliSpec == Init /\ [][CliNext]_vars

\* Claims about the command line, checked under CliSpec.

ALL_STEMS == {"vocals", "drums", "bass", "other"}

MixFile(c) == MixPath(c.input_path, CLI_OUTPUT_DIR, OUTPUT_NAME)

Range(q) == {q[i] : i \in DOMAIN q}

RECURSIVE Gcd(_, _)
Gcd(a, b) == IF b = 0 THEN a ELSE Gcd(b, a % b)

RECURSIVE GcdOf(_, _)
GcdOf(q, i) == IF i > Len(q) THEN 0 ELSE Gcd(Abs(q[i]), GcdOf(q, i + 1))

\* a sequence of integers, not all zero, over their greatest common divisor
Primitive(q) == [i \in DOMAIN q |-> q[i] \div GcdOf(q, 1)]

\* the waveform at path q is the sample-wise sum of the stems S[inc[i]],
\* every one of which loads and has the length of the others, scaled so
\* that its peak is 0.9
IsMixOfAll(d, q, S, inc) ==
    /\ inc # <<>>
    /\ Loadable(d, S, inc) = DOMAIN inc
    /\ Joined(d, S, inc) = DOMAIN inc
    /\ LET n == Len(WaveOf(d, S, inc, 1).num)
           sum == [j \in 1..n |-> SumNumAt(d, S, inc, DOMAIN inc, j)]
           peak == MaxAbs({sum[j] : j \in 1..n})
           w == d.files[q].blob.wave
       IN  /\ Len(w.num) = n
           /\ IF peak = 0 THEN \A j \in 1..n : w.num[j] = 0
              ELSE /\ Primitive(w.num) = Primitive(sum)
                   /\ 10 * PeakNum(w) = 9 * w.den

\* what separate_audio alone does with the command's input
Separated(c) ==
    SeparateAudio(disk, c.input_path, CLI_OUTPUT_DIR, c.model, c.engine_fault, 0, now)

\* C18: --cpu makes the device cpu; without --mix the command does what
\* separate_audio does and leaves the mix file alone; with --mix and all
\* four --no-<stem> flags the mix file is left alone and the command raises
\* only if the separation raised; with --mix and fewer flags a separation
\* that produced stems is followed by a mix, written to custom_mix.wav in
\* the stem folder unless the output cannot be saved, which is the
\* normalized sum of exactly the produced stems whose flag was not given.
C18_CliMixFlags ==
    [][last'.op = "cli" =>
          LET c == last'
              chosen == Keys(c.stem_paths) \ c.args.no
          IN  /\ c.args.cpu => c.device = "cpu"
              /\ ~c.args.mix =>
                    /\ disk' = Separated(c).disk
                    /\ c.ret = Separated(c).ret
                    /\ SameFile(disk', disk, MixFile(c))
              /\ (c.args.mix /\ c.args.no = ALL_STEMS) =>
                    /\ SameFile(disk', disk, MixFile(c))
                    /\ c.ret.tag # "path"
                    /\ c.ret = RetRaise <=> Separated(c).ret = RetRaise
              /\ (c.args.mix /\ c.ret.tag = "path") =>
                    /\ c.ret.path = MixFile(c)
                    /\ Keys(c.stem_paths) = Range(MODEL_SOURCES)
                    /\ Range(c.include.items) = chosen
                    /\ Len(c.include.items) = Cardinality(chosen)
                    /\ IsMixOfAll(disk', MixFile(c), c.stem_paths, c.include.items)
              /\ (c.args.mix /\ c.stem_paths # EmptyDict /\ chosen # {} /\ c.fault < 2) =>
                    c.ret.tag = "path"
      ]_vars

\* --mix --no-drums has written the mix of vocals, bass and other
C18_Witness ==
    /\ last.op = "cli" /\ last.args.mix /\ last.args.no = {"drums"}
    /\ last.ret = RetPath(MixFile(last))
    /\ last.include = List(<<"vocals", "bass", "other">>)
    /\ IsFile(disk, MixFile(last))

\* --mix with all four flags has separated the stems and ended with no mix file
C18_WitnessNoStems ==
    /\ last.op = "cli" /\ last.args.mix /\ last.args.no = ALL_STEMS
    /\ Keys(last.stem_paths) = ALL_STEMS
    /\ last.ret = RetNone
    /\ ~IsFile(disk, MixFile(last))

\* without --mix, with --cpu on a machine whose default device is cuda
C18_WitnessSeparateOnly ==
    /\ last.op = "cli" /\ ~last.args.mix /\ last.args.cpu
    /\ last.ret.tag = "dict" /\ Keys(last.ret.dict) = ALL_STEMS
    /\ last.device = "cpu"
    /\ ~IsFile(disk, MixFile(last))

----------------------------------------------------------------------------
(* load_audio called on its own *)

WaveMono == [sr |-> 22050, ch |-> 1, num |-> <<1, -1>>, den |-> 2]

DECODE_INPUTS == { <<"in", FileName(r)>> : r \in NAME_PARTS }

\* three channels at 48 kHz
WaveSurround == [sr |-> 48000, ch |-> 3, num |-> <<1, -1, 2, -2>>, den |-> 2]

\* a stereo file for every set of strategies that read it, and a mono file
\* and a three-channel file at other rates for every first strategy that
\* reads them
DECODE_BLOBS ==
    { [size |-> 1, dec |-> D, wave |-> WaveA] : D \in SUBSET DECODERS }
      \cup { [size |-> 1, dec |-> D, wave |-> w] :
                D \in {DECODERS, {"librosa", "ffmpeg"}, {"ffmpeg"}},
                w \in {WaveMono, WaveSurround} }

WriteInput(p, b) ==
    /\ steps < MaxCalls
    /\ ~IsFile(disk, p)
    /\ disk' = WriteBlob(MakeDirs(disk, Dirname(p)), p, b, now)
    /\ last' = [NoCall EXCEPT !.op = "write", !.input_path = p]
    /\ steps' = steps + 1
    /\ UNCHANGED <<now, session, memo, widgets, stores>>

CallLoadAudio(p) ==
    /\ steps < MaxCalls
    /\ \E r \in {LoadAudio(disk, p, MODEL_SAMPLERATE)} :
          last' = [NoCall EXCEPT !.op = "load_audio", !.input_path = p,
                                 !.ret = IF r.ok THEN RetNone ELSE RetRaise,
                                 !.tried = r.tried, !.wave = r.wave, !.chans = r.chans]
    /\ steps' = steps + 1
    /\ UNCHANGED <<disk, now, session, memo, widgets, stores>>

DecodeNext ==
    \/ \E p \in DECODE_INPUTS, b \in DECODE_BLOBS : WriteInput(p, b)
    \/ \E p \in DECODE_INPUTS : CallLoadAudio(p)

DecodeSpec == Init /\ [][DecodeNext]_vars

\* the strategies that read the file load_audio was called on
Readers(c) == IF IsFile(disk, c.input_path) THEN disk.files[c.input_path].blob.dec ELSE {}

Converted(c) == Lower(SplitExt(Basename(c.input_path)).ext) \in CONVERTED_EXTS

CHAIN == <<"torchaudio", "librosa", "ffmpeg">>

\* the attempts are the chain's strategies in order, each made after every
\* earlier one failed, and the first success is the last attempt
OrderedShortCircuit(c) ==
    /\ Len(c.tried) >= 1
    /\ \A i \in 1..Len(c.tried) : i <= 3 => c.tried[i] = CHAIN[i]
    /\ \A i \in 1..Len(c.tried) : \A j \in 1..(i - 1) : c.tried[j] \notin Readers(c)
    /\ c.ret = RetNone <=> c.tried[Len(c.tried)] \in Readers(c)

\* C19 as stated: the chain is ordered and short-circuits, and load_audio
\* raises only after the converter was tried.
C19_DecodeChainAlwaysConverts ==
    last.op = "load_audio" =>
        /\ OrderedShortCircuit(last)
        /\ last.ret = RetRaise => "ffmpeg" \in Range(last.tried)

\* C19: the chain is ordered and short-circuits; when torchaudio and librosa
\* both fail the converter is tried for the extensions .m4a, .aac and .mp4
\* in any case of letters, and a failed conversion is followed by a second
\* librosa attempt before load_audio raises; for any other extension
\* load_audio raises after the two attempts.
C19_DecodeChain ==
    last.op = "load_audio" =>
        /\ OrderedShortCircuit(last)
        /\ (last.ret = RetRaise /\ Converted(last)) =>
              last.tried = <<"torchaudio", "librosa", "ffmpeg", "librosa">>
        /\ (last.ret = RetRaise /\ ~Converted(last)) =>
              last.tried = <<"torchaudio", "librosa">>
        /\ "ffmpeg" \in Range(last.tried) => Converted(last)

\* load_audio raised for a .wav file that only the converter could read
C19_Witness ==
    /\ last.op = "load_audio" /\ last.ret = RetRaise
    /\ last.input_path = <<"in", "a.wav">>
    /\ Readers(last) = {"ffmpeg"}
    /\ last.tried = <<"torchaudio", "librosa">>

\* the converter read a .M4A file that torchaudio and librosa did not
C19_WitnessConverted ==
    /\ last.op = "load_audio" /\ last.ret = RetNone
    /\ last.input_path = <<"in", "d.M4A">>
    /\ last.tried = <<"torchaudio", "librosa", "ffmpeg">>

----------------------------------------------------------------------------
(* The writers called with failing output backends *)

\* the backends of save_audio that fail: none, soundfile, both torchaudio
\* backends, all three
SAVE_FAULTS == 0..3

\* the backends of mix_stems that fail
MIX_FAULTS == 0..2

\* the step of save_to_cache that fails: none, the first or second copy,
\* os.makedirs, os.path.getsize
COPY_FAULTS == {0, 1, 2, -1, -2}

SaveNext ==
    /\ steps < MaxCalls
    /\ \/ WriteUpload(P1, BlobA)
       \/ \E b \in {BlobB, BlobBad} : WriteUpload(P2, b)
       \/ \E p \in Inputs(disk), m \in TRIED_MODELS, k \in SAVE_FAULTS :
             CallSeparateAudio(p, m, FALSE, k)
       \/ \E p \in Inputs(disk) : CallSeparateAudio(p, "htdemucs", TRUE, 0)
       \/ \E inc \in MIX_SELECTIONS, f \in MIX_FAULTS :
             CallMixStems(FullSet(P1), MIX_OUT, inc, f)
       \/ \E p \in Inputs(disk), S \in StemSets(disk), k \in COPY_FAULTS :
             CallSaveToCache(p, "htdemucs", S, k)

SaveSpec == Init /\ [][SaveNext]_vars

\* the stem files separate_audio writes for the input of call c
StemTargets(c) == {Join(StemFolder(c.input_path), StemFile(MODEL_SOURCES[i])) : i \in DOMAIN MODEL_SOURCES}

\* save_audio raises only when soundfile, the default backend and scipy all
\* failed, and scipy (16-bit samples) writes only when the other two failed
SaveAudioChain ==
    (last'.op = "separate_audio" /\ CanLoad(disk, last'.input_path)
       /\ ~last'.engine_fault) =>
        /\ last'.ret = RetRaise <=> last'.fault = 3
        /\ last'.fault = 3 => disk'.files = disk.files
        /\ last'.fault < 3 =>
              \A q \in StemTargets(last') :
                  /\ IsFile(disk', q)
                  /\ disk'.files[q].blob.wave.den = 32768 <=> last'.fault = 2

\* mix_stems returns None from a selection with a stem that loads only when
\* soundfile and the default backend both failed
MixSaveChain ==
    (last'.op = "mix_stems" /\ ~Falsy(last'.include)
       /\ Loadable(disk, last'.stem_paths, last'.include.items) # {}) =>
        /\ last'.ret = RetNone <=> last'.fault = 2
        /\ last'.fault = 2 => disk'.files = disk.files
        /\ last'.fault < 2 => last'.ret = RetPath(MIX_OUT) /\ IsFile(disk', MIX_OUT)

\* the file that copy number k of a store writes
CopyTarget(c, k) ==
    Join(StoreCacheDir(disk, c.input_path, c.model), StemFile(c.stem_paths[k][1]))

\* C20 as stated: no writer surfaces an error while a backend is left to
\* try, the cache copy included: a store in which shutil.copy2 fails for one
\* stem still returns, with the stem stored.
C20_EveryWriterFallsBack ==
    [][/\ SaveAudioChain
       /\ MixSaveChain
       /\ (StoreFailed(last') /\ last'.fault > 0) =>
             /\ last'.ret = RetNone
             /\ IsFile(disk', CopyTarget(last', last'.fault))
      ]_vars

\* C20: save_audio raises only after soundfile, the default backend and
\* scipy have failed in this order; mix_stems returns None only after
\* soundfile and the default backend have failed; save_to_cache has no
\* second way to copy: when shutil.copy2 fails for a stem the error leaves
\* save_to_cache at once and the stem's cache file is as it was.
C20_StorageFallback ==
    [][/\ SaveAudioChain
       /\ MixSaveChain
       /\ (StoreFailed(last') /\ last'.fault > 0) =>
             /\ last'.ret = RetRaise
             /\ SameFile(disk', disk, CopyTarget(last', last'.fault))
      ]_vars

\* the first copy of a store failed: the store raised and the stem is not
\* in the cache
C20_Witness ==
    /\ StoreFailed(last) /\ last.fault = 1 /\ last.ret = RetRaise
    /\ IsFile(disk, last.stem_paths[1][2])
    /\ ~IsFile(disk, CopyTarget(last, 1))

\* separate_audio returned stems that scipy wrote
C20_WitnessScipy ==
    /\ last.op = "separate_audio" /\ last.fault = 2 /\ last.ret.tag = "dict"
    /\ \A q \in StemTargets(last) : IsFile(disk, q) /\ disk.files[q].blob.wave.den = 32768

\* mix_stems gave up after both of its backends failed
C20_WitnessMixNone ==
    /\ last.op = "mix_stems" /\ last.fault = 2 /\ last.ret = RetNone
    /\ Loadable(disk, last.stem_paths, last.include.items) # {}

----------------------------------------------------------------------------
(* save_to_cache in two threads: Streamlit runs the script of each browser *)
(* session in a thread of its own, and nothing locks the cache directory.  *)
(* shutil.copy2 is open(dst, "wb"), which empties dst, then the write of   *)
(* the source bytes from offset 0, then copystat.                          *)

\* what open(dst, "wb") leaves
EmptyFile == [size |-> 0, dec |-> {}, wave |-> NoWave]

\* (faulty variant) no byte is written
OverwriteNothing(src, old) == old

\* the bytes of src written from offset 0 over a file holding old: a longer
\* old file keeps its tail, behind the header and the samples of src
Overwrite(src, old) == IF src.size >= old.size THEN src ELSE [src EXCEPT !.size = old.size]

\* two sessions have uploaded a.wav, of one size and different lengths of
\* audio, and separated it
RaceDisk ==
    SeparateAudio(
        SeparateAudio(
            WriteBlob(WriteBlob(MakeDirs(MakeDirs(MakeDirs(MakeDirs(
                [files |-> <<>>, dirs |-> {}], DEV_CACHE_DIR), TEMP_DIR),
                Dirname(P1)), Dirname(P2)), P1, BlobA, T0), P2, BlobLong, T0),
            P1, Join(Dirname(P1), "stems"), "htdemucs", FALSE, 0, T0).disk,
        P2, Join(Dirname(P2), "stems"), "htdemucs", FALSE, 0, T0).disk

RaceInit ==
    /\ disk = RaceDisk
    /\ now = T0
    /\ session = [stem_paths |-> RetNone, mix_file |-> RetNone]
    /\ memo = <<>>
    /\ widgets = NoWidgets
    /\ last = NoCall
    /\ steps = 0
    /\ stores = NoStores

\* the upload of a thread's session
InputOf(w) == IF w = 1 THEN P1 ELSE P2

\* the file copy number i of thread w writes, and the file it reads
Dst(w) ==
    Join(StoreCacheDir(disk, stores[w].input_path, stores[w].model),
         StemFile(stores[w].stem_paths[stores[w].i][1]))

Src(w) == stores[w].stem_paths[stores[w].i][2]

\* app.py 102-114: the key, and os.makedirs of its directory
StoreBegin(w, S) ==
    /\ stores[w].pc = "idle"
    /\ disk' = MakeDirs(disk, StoreCacheDir(disk, InputOf(w), "htdemucs"))
    /\ stores' = [stores EXCEPT ![w] =
                     [pc |-> IF S = EmptyDict THEN "done" ELSE "open",
                      input_path |-> InputOf(w), model |-> "htdemucs",
                      stem_paths |-> S, i |-> 1]]
    /\ last' = [NoCall EXCEPT !.op = "store_begin"]
    /\ UNCHANGED <<now, session, memo, widgets, steps>>

\* shutil.copy2, first half: the destination is opened for writing
StoreOpen(w) ==
    /\ stores[w].pc = "open"
    /\ IF Copy2Raises(disk, Src(w), Dst(w))
       THEN /\ stores' = [stores EXCEPT ![w].pc = "raised"]
            /\ UNCHANGED disk
       ELSE /\ stores' = [stores EXCEPT ![w].pc = "write"]
            /\ disk' = WriteBlob(disk, Dst(w), EmptyFile, now)
    /\ last' = [NoCall EXCEPT !.op = "store_open"]
    /\ UNCHANGED <<now, session, memo, widgets, steps>>

\* shutil.copy2, second half: the bytes and the times of the source
StoreWrite(w) ==
    /\ stores[w].pc = "write"
    /\ disk' = [disk EXCEPT !.files[Dst(w)] =
                   [blob  |-> Overwrite(disk.files[Src(w)].blob, @.blob),
                    mtime |-> disk.files[Src(w)].mtime]]
    /\ stores' = [stores EXCEPT ![w].i = @ + 1,
                                ![w].pc = IF stores[w].i = Len(stores[w].stem_paths)
                                          THEN "done" ELSE "open"]
    /\ last' = [NoCall EXCEPT !.op = "store_write"]
    /\ UNCHANGED <<now, session, memo, widgets, steps>>

\* get_cached_stems in a third thread
RaceLookup(p) ==
    /\ steps < MaxLookups
    /\ \E r \in {GetCachedStems(disk, p, "htdemucs")} :
          last' = [NoCall EXCEPT !.op = "get_cached_stems", !.input_path = p,
                                 !.model = "htdemucs", !.ret = r.ret, !.msgs = r.msgs]
    /\ steps' = steps + 1
    /\ UNCHANGED <<disk, now, session, memo, widgets, stores>>

RaceNext ==
    \/ \E w \in THREADS, N \in PARTS :
          StoreBegin(w, DictOver(MODEL_SOURCES, N, StemFolder(InputOf(w))))
    \/ \E w \in THREADS : StoreOpen(w)
    \/ \E w \in THREADS : StoreWrite(w)
    \/ RaceLookup(P1)

RaceSpec == RaceInit /\ [][RaceNext]_vars

\* the directory of the key both uploads have
RaceDir == StoreCacheDir(disk, P1, "htdemucs")

Storing(w) == stores[w].pc \in {"open", "write"}

\* the threads that have stored stem k and returned
Stored(k) == {w \in THREADS : stores[w].pc = "done" /\ k \in Keys(stores[w].stem_paths)}

SourceBlob(w, k) == disk.files[Get(stores[w].stem_paths, k)].blob

\* a lookup returns the stems whose files are in the directory at that moment
LookupSeesPresent ==
    steps' = steps + 1 =>
        LET here == Present(disk, RaceDir)
        IN  IF here = {} THEN last'.ret = RetNone
            ELSE /\ last'.ret.tag = "dict"
                 /\ Keys(last'.ret.dict) = here

C21_WitnessTorn ==
    /\ \A w \in THREADS : stores[w].pc = "done"
    /\ Stored("vocals") = THREADS
    /\ \A w \in THREADS :
          disk.files[Join(RaceDir, StemFile("vocals"))].blob # SourceBlob(w, "vocals")

\* the waveform in the file load_audio was called on
Source(c) == disk.files[c.input_path].blob.wave

ByConverter(c) == c.tried[Len(c.tried)] = "ffmpeg"

\* load_audio returned two channels at the target rate, with the number of
\* samples the rate change gives
TwoChannelsAtTarget(c) ==
    /\ c.wave.ch = 2 /\ Len(c.chans) = 2
    /\ c.wave.sr = MODEL_SAMPLERATE
    /\ Len(c.wave.num) * Source(c).sr >= Len(Source(c).num) * MODEL_SAMPLERATE
    /\ (Len(c.wave.num) - 1) * Source(c).sr < Len(Source(c).num) * MODEL_SAMPLERATE

C22_WitnessDownmix ==
    /\ last.op = "load_audio" /\ last.ret = RetNone
    /\ ByConverter(last)
    /\ last.chans = <<{1, 3}, {2, 3}>>

\* torchaudio read one channel at 22.05 kHz: it came back twice
C22_WitnessMono ==
    /\ last.op = "load_audio" /\ last.ret = RetNone
    /\ last.tried = <<"torchaudio">>
    /\ Source(last) = WaveMono
    /\ last.chans = <<{1}, {1}>> /\ Len(last.wave.num) = 4

\* the input of call c loads
Loads(c) == LoadAudio(disk, c.input_path, MODEL_SAMPLERATE).ok

\* <output_dir>/<input basename without extension>, for the output_dir the
\* callers here pass
OutputFolder(c) ==
    Join(Join(Dirname(c.input_path), "stems"), SplitExt(Basename(c.input_path)).base)

\* C23: when the input loads, separate_audio returns one entry per source of
\* the model, in the order of the sources, each mapped to
\* <output_dir>/<input basename without extension>/<stem>.wav, a file
\* written in this call, unless apply_model or every backend of save_audio
\* fails, and then it raises; when the input does not load it returns an
\* empty mapping and no file is written or changed.
C23_SeparateResultShape ==
    [][last'.op = "separate_audio" =>
          /\ (Loads(last') /\ ~last'.engine_fault /\ last'.fault < 3) =>
                /\ last'.ret.tag = "dict"
                /\ Len(last'.ret.dict) = Len(MODEL_SOURCES)
                /\ \A i \in DOMAIN MODEL_SOURCES :
                      /\ last'.ret.dict[i][1] = MODEL_SOURCES[i]
                      /\ last'.ret.dict[i][2]
                            = Join(OutputFolder(last'), MODEL_SOURCES[i] \o ".wav")
                      /\ IsFile(disk', last'.ret.dict[i][2])
                      /\ disk'.files[last'.ret.dict[i][2]].mtime = now
          /\ (Loads(last') /\ (last'.engine_fault \/ last'.fault = 3)) =>
                last'.ret = RetRaise
          /\ ~Loads(last') =>
                /\ last'.ret = RetDict(EmptyDict)
                /\ disk'.files = disk.files
      ]_vars

\* separate_audio returned the four stems of a.wav, written under stems/a
C23_Witness ==
    /\ last.op = "separate_audio" /\ last.ret.tag = "dict"
    /\ last.input_path = P1 /\ last.fault = 0
    /\ Keys(last.ret.dict) = ALL_STEMS
    /\ \A k \in ALL_STEMS :
          IsFile(disk, <<"temp", "s1", "stems", "a", k \o ".wav">>)

\* separate_audio returned an empty mapping for a file no strategy reads
C23_WitnessNoLoad ==
    /\ last.op = "separate_audio" /\ last.ret = RetDict(EmptyDict)
    /\ IsFile(disk, last.input_path)
    /\ disk.files[last.input_path].blob = BlobBad

\* a press of Separate Stems on a saved upload that decodes
IsPress(c, w) ==
    c.op = "run" /\ c.pressed = "separate" /\ w.has /\ ~c.escaped /\ ~Undecodable(w)

\* st.cache_data holds a result for the arguments of this press
Memoized(c) == <<c.input_path, Join(Dirname(c.input_path), "stems"), c.model>> \in DOMAIN memo

\* the cache files of the stems of a result
StoredFor(d, c, r) ==
    {Join(StoreCacheDir(d, c.input_path, c.model), StemFile(k)) : k \in Keys(r.dict)}

\* an engine result enters the session only behind a store that returned
StoredBeforeSession ==
    /\ (~last'.hit /\ last'.store # "ok") => session' = session
    /\ (~last'.hit /\ session'.stem_paths # session.stem_paths) =>
          \A q \in StoredFor(disk', last', session'.stem_paths) : IsFile(disk', q)

\* C24 as stated: with the option off a press consults nothing and runs the
\* engine; with it on the engine runs exactly when the lookup gave no stems.
C24_EngineRunsOnEveryMiss ==
    [][IsPress(last', widgets') =>
          /\ ~last'.use_cached => (~last'.looked /\ ~last'.hit /\ last'.engine)
          /\ last'.use_cached => (last'.engine <=> ~last'.hit)
          /\ StoredBeforeSession
      ]_vars

\* C24: with the option off a press consults nothing; in both cases a press
\* without a hit calls cached_separate_audio, and the engine runs exactly
\* when st.cache_data holds no result for the same input path, output
\* directory and model; an engine result is stored to the cache before it
\* is placed in session state.
C24_UseCachedSwitch ==
    [][IsPress(last', widgets') =>
          /\ last'.looked = last'.use_cached
          /\ ~last'.use_cached => ~last'.hit
          /\ last'.engine <=> (~last'.hit /\ ~Memoized(last'))
          /\ StoredBeforeSession
      ]_vars

\* with the option off, the engine ran although the cache held all four
\* stems for the key
C24_Witness ==
    /\ IsPress(last, widgets) /\ ~last.use_cached /\ last.engine
    /\ last.had = ALL_STEMS
    /\ last.store = "ok" /\ Truthy(session.stem_paths)

\* a press without a hit in which the engine did not run
C24_WitnessMemoized ==
    /\ IsPress(last, widgets) /\ ~last.hit /\ ~last.engine
    /\ last.store = "ok"

----------------------------------------------------------------------------
(* cleanup_temp_files called directly, on files of several ages *)

DAY == 24 * 60 * 60

\* the files written: a mix file in temp, an upload and a stem in a session
\* directory, and a stem in the cache
CLEANUP_PATHS ==
    {Join(TEMP_DIR, "custom_mix_1.wav"),
     Join(Join(TEMP_DIR, "1000_17"), "a.wav"),
     Join(Join(Join(TEMP_DIR, "1000_17"), "stems"), "vocals.wav"),
     Join(Join(DEV_CACHE_DIR, "md5:a.wav_1_htdemucs"), "vocals.wav")}

CLEANUP_TICKS == {1, DAY, DAY + 1}

CLEANUP_AGES == {MAX_AGE_HOURS, 0}

WriteOld(p) ==
    /\ disk' = WriteBlob(MakeDirs(disk, Dirname(p)), p, BlobA, now)
    /\ last' = [NoCall EXCEPT !.op = "write", !.input_path = p]
    /\ UNCHANGED now

CleanupTick(dt) ==
    /\ now' = now + dt
    /\ last' = [NoCall EXCEPT !.op = "tick"]
    /\ UNCHANGED disk

CallCleanupTempFiles(max_age_hours, stuck) ==
    /\ \E r \in {CleanupTempFiles(disk, max_age_hours, stuck, now)} :
          /\ disk' = r
          /\ last' = [NoCall EXCEPT !.op = "cleanup", !.stuck = stuck,
                                    !.max_age_hours = max_age_hours,
                                    !.cleaned = DOMAIN disk.files \ DOMAIN r.files]
    /\ UNCHANGED now

CleanupNext ==
    /\ steps < MaxSteps
    /\ steps' = steps + 1
    /\ UNCHANGED <<session, memo, widgets, stores>>
    /\ \/ \E p \in CLEANUP_PATHS : WriteOld(p)
       \/ \E dt \in CLEANUP_TICKS : CleanupTick(dt)
       \/ \E h \in CLEANUP_AGES : CallCleanupTempFiles(h, {})
       \/ \E p \in DOMAIN disk.files : CallCleanupTempFiles(MAX_AGE_HOURS, {p})

CleanupSpec == Init /\ [][CleanupNext]_vars

\* the files under temp older than the age given
OldTemp(d, c, t) ==
    {p \in DOMAIN d.files :
        IsUnder(p, TEMP_DIR) /\ t - d.files[p].mtime > c.max_age_hours * 3600}

\* C25: cleanup_temp_files removes exactly the files under temp whose age is
\* strictly greater than max_age_hours, except those whose removal fails;
\* every younger file, every file outside temp and every directory stays as
\* it was, and a failed removal does not keep the other old files.
C25_CleanupTempFiles ==
    [][last'.op = "cleanup" =>
          /\ DOMAIN disk'.files = DOMAIN disk.files \ (OldTemp(disk, last', now) \ last'.stuck)
          /\ \A p \in DOMAIN disk'.files : disk'.files[p] = disk.files[p]
          /\ disk'.dirs = disk.dirs
      ]_vars

\* a file exactly max_age_hours old stayed, an older one went
C25_Witness ==
    /\ last.op = "cleanup" /\ last.max_age_hours = MAX_AGE_HOURS
    /\ last.cleaned # {}
    /\ \E p \in DOMAIN disk.files :
          IsUnder(p, TEMP_DIR) /\ now - disk.files[p].mtime = DAY

\* the removal of the first old file walked failed and a later one went
C25_WitnessStuck ==
    /\ last.op = "cleanup"
    /\ \E p \in last.stuck, q \in last.cleaned :
          /\ p \in DOMAIN disk.files /\ WalkedBefore(p, q)
          /\ now - disk.files[p].mtime > DAY
    /\ Dirname(CHOOSE q \in last.cleaned : TRUE) \in disk.dirs

----------------------------------------------------------------------------
(* The session's stem set and the current widgets *)

\* the file the engine writes for stem k of an upload under a model
ProducedFrom(w, model_name, k) ==
    LET up == WriteBlob([files |-> <<>>, dirs |-> {}], <<w.name>>, w.blob, 0)
        a == LoadAudio(up, <<w.name>>, MODEL_SAMPLERATE)
        s == SaveAudio(up, ApplyModel(a.wave, model_name, k), <<StemFile(k)>>, 0, 0)
    IN  IF a.ok THEN s.disk.files[<<StemFile(k)>>].blob ELSE Unreadable

\* C26 as stated: whenever the session holds a stem set, each of its files
\* is what the engine produces from the file now uploaded with the model
\* now selected.
C26_SessionMatchesInput ==
    (widgets.has /\ Truthy(session.stem_paths)) =>
        \A i \in DOMAIN session.stem_paths.dict :
            LET k == session.stem_paths.dict[i][1]
                q == session.stem_paths.dict[i][2]
            IN  IsFile(disk, q) => disk.files[q].blob = ProducedFrom(widgets, widgets.model, k)

\* the engine ran in this press and returned its stems
EngineReturned(c, w) == IsPress(c, w) /\ ~c.hit /\ c.engine /\ ~c.engine_fault

\* C27 as stated: after a press in which the engine returned a stem set, the
\* session holds that stem set, whatever save_to_cache did afterwards.
C27_SuccessReachesSession ==
    [][EngineReturned(last', widgets') =>
          /\ Truthy(session'.stem_paths)
          /\ Keys(session'.stem_paths.dict) = ALL_STEMS
          /\ \A i \in DOMAIN session'.stem_paths.dict :
                IsUnder(session'.stem_paths.dict[i][2],
                        Join(Dirname(last'.input_path), "stems"))
      ]_vars

\* the paths the session state holds
SessionPaths ==
    {session.stem_paths.dict[i][2] : i \in DOMAIN session.stem_paths.dict}
       \cup (IF session.mix_file.tag = "path" THEN {session.mix_file.path} ELSE {})

\* C28 as stated: every path of the session's stem set, and the session's
\* mix_file, is a file on disk.
C28_SessionPathsValid == \A p \in SessionPaths : IsFile(disk, p)

----------------------------------------------------------------------------
(* The key of files whose names contain underscores and digits *)

KEY_NAMES == {"a", "a1", "a_1", "a_11", "a_1_htdemucs", "a_1_mdx_extra"}

KEY_SIZES == {1, 11}

\* uploads of one size share a session directory
KeyPath(name, size) == Join(Join(TEMP_DIR, "s" \o ToString(size)), name)

KeyInputs(d) == {p \in DOMAIN d.files : IsUnder(p, TEMP_DIR)}

KeyNext ==
    /\ steps < MaxCalls
    /\ \/ \E n \in KEY_NAMES, z \in KEY_SIZES :
             WriteUpload(KeyPath(n, z), [BlobA EXCEPT !.size = z])
       \/ \E p \in KeyInputs(disk), m \in MODEL_NAMES :
             CallSaveToCache(p, m, <<<<"vocals", p>>>>, 0)

KeySpec == Init /\ [][KeyNext]_vars

\* what the key is built from
KeyParts(d, p, m) == <<Basename(p), GetSize(d, p), m>>

\* C29: after a store for an input and a model, every other input and model
\* on disk that differs from it in basename, size or model has another
\* pre-hash key string, in the store's and in the lookup's construction, and
\* its lookup returns what it returned before the store.
C29_KeySeparation ==
    [][(last'.op = "save_to_cache" /\ last'.ret.tag # "raise") =>
          \A q \in KeyInputs(disk), m \in MODEL_NAMES :
             KeyParts(disk, q, m) # KeyParts(disk, last'.input_path, last'.model) =>
                /\ LookupKey(Basename(q), GetSize(disk, q), m)
                      # LookupKey(Basename(last'.input_path),
                                  GetSize(disk, last'.input_path), last'.model)
                /\ StoreKey(Basename(q), GetSize(disk, q), m)
                      # StoreKey(Basename(last'.input_path),
                                 GetSize(disk, last'.input_path), last'.model)
                /\ GetCachedStems(disk', q, m).ret = GetCachedStems(disk, q, m).ret
      ]_vars

\* a_1 of size 1 was stored; a of size 11 is on disk and its lookup under
\* the same model finds nothing, while the lookup of a_1 finds the stem
C29_Witness ==
    /\ last.op = "save_to_cache" /\ last.ret.tag # "raise"
    /\ last.input_path = KeyPath("a_1", 1)
    /\ IsFile(disk, KeyPath("a", 11))
    /\ GetCachedStems(disk, KeyPath("a", 11), last.model).ret = RetNone
    /\ Truthy(GetCachedStems(disk, last.input_path, last.model).ret)

\* a was stored under htdemucs; a_1_htdemucs of the same size is on disk and
\* its lookup under htdemucs_ft finds nothing
C29_WitnessModel ==
    /\ last.op = "save_to_cache" /\ last.ret.tag # "raise"
    /\ last.input_path = KeyPath("a", 1) /\ last.model = "htdemucs"
    /\ IsFile(disk, KeyPath("a_1_htdemucs", 1))
    /\ \A m \in MODEL_NAMES :
          GetCachedStems(disk, KeyPath("a_1_htdemucs", 1), m).ret = RetNone

----------------------------------------------------------------------------
(* mix_stems with a selection of which nothing loads *)

\* no selected name is in the stem set with a file that loads
NothingLoadable(d, c) ==
    /\ c.op = "mix_stems" /\ ~Falsy(c.include)
    /\ \A i \in DOMAIN c.include.items :
          LET k == c.include.items[i]
          IN  k \notin Keys(c.stem_paths) \/ ~CanLoad(d, Get(c.stem_paths, k))

\* C30: mix_stems with a non-empty selection of which no stem can be used
\* returns None, raises nothing and leaves the disk as it was: no output
\* file and no parent directory is made.
C30_MixNothingLoadable ==
    [][NothingLoadable(disk, last') =>
          /\ last'.ret = RetNone
          /\ disk' = disk
      ]_vars

\* the four stems of an input were selected before they were written: None
\* was returned and the output directory does not exist
C30_Witness ==
    /\ NothingLoadable(disk, last)
    /\ last.stem_paths # EmptyDict /\ Len(last.include.items) > 1
    /\ last.ret = RetNone
    /\ Dirname(last.input_path) \notin disk.dirs
    /\ ~Exists(disk, last.input_path)

\* the selected names are not in the stem set
C30_WitnessMissing ==
    /\ NothingLoadable(disk, last)
    /\ last.stem_paths = EmptyDict
    /\ last.ret = RetNone
    /\ Dirname(last.input_path) \notin disk.dirs

====
